---- MODULE Spec2Model ----
(***************************************************************************)
(* A model of the skyclaw coordinator: the in-memory state machine of      *)
(* CoordinatorState (hosts, jobs, lease bookkeeping, versions) and the     *)
(* snapshot replication that ties several coordinators together.           *)
(*                                                                         *)
(* Time is an integer number of milliseconds.  An ISO-8601 timestamp as    *)
(* produced by Date.toISOString() has a fixed width, so the string order   *)
(* used by localeCompare and by the > of shouldAdopt is the order of the   *)
(* millisecond values; new Date(iso).getTime() gives the value back.       *)
(***************************************************************************)
EXTENDS Integers, Sequences, FiniteSets, TLC

(***************************************************************************)
(* Bounds of the model.                                                    *)
(***************************************************************************)
MaxVersion == 8
MaxTime == 1
MaxJobs == 2
MaxClusterVersion == 5
MaxClusterJobs == 1

(***************************************************************************)
(* Identifiers and inputs.                                                 *)
(***************************************************************************)
Nodes == {"node-a", "node-b"}
LocalNode == "node-a"
HostIds == {"h1", "h2"}
NoHost == "undefined"
NoTime == -1
NoJob == 0

\* Capability strings as clients send them, untrimmed and repeated.
\* What the two hosts send.  h1 is a shell host that registers with several
\* capacities and reports lease counts of its own in its heartbeat; h2 also
\* runs openclaw jobs, one at a time, and sends no count.
HostCapabilityInputs(hostId) ==
  IF hostId = "h1" THEN {<<"shell">>} ELSE {<<"shell", " openclaw", "shell">>}
MaxParallelInputs(hostId) ==
  IF hostId = "h1" THEN {0, MaxJobs} ELSE {1}
RequirementInputs == {<< >>, <<"openclaw", "">>}

Max(a, b) == IF a >= b THEN a ELSE b
Min(a, b) == IF a <= b THEN a ELSE b

\* A value of type number | undefined: undefined, NaN, an infinity, or a
\* finite number, given in halves so that Math.floor has something to do.
Unset == [kind |-> "undefined", halves |-> 0]
NotFinite == {[kind |-> k, halves |-> 0] : k \in {"NaN", "Infinity", "-Infinity"}}
Halves(h) == [kind |-> "number", halves |-> h]
Number(n) == Halves(2 * n)

\* Number.isFinite: false for undefined, NaN and the infinities.
isFinite(value) == value.kind = "number"

\* Math.floor: the greatest integer not above the value.
floor(value) == value.halves \div 2

\* Math.max of two finite numbers.
mathMax(a, b) == IF a.halves >= b.halves THEN a ELSE b

\* String.prototype.trim on the capability strings of the model.
trim(s) == IF s = " openclaw" THEN "openclaw" ELSE s

\* normalizeCapabilities: trimmed, empty strings dropped, de-duplicated and
\* sorted; a sorted sequence without repetitions is represented by its set.
normalizeCapabilities(caps) ==
  {trim(caps[i]) : i \in DOMAIN caps} \ {""}

\* hasCapabilities: every required capability is one of the host's.
hasCapabilities(hostCapabilities, required) ==
  IF required = {} THEN TRUE
  ELSE \A cap \in required : cap \in hostCapabilities

(***************************************************************************)
(* The state of one CoordinatorState object: hosts is the Map of           *)
(* HostRecord by id, jobs the Map of JobRecord and services the Map of     *)
(* ServiceRecord in insertion order, disk the tables of its                *)
(* CoordinatorStorage, each row keyed by the id of its record (the         *)
(* idempotency table by route and key).                                    *)
(***************************************************************************)
EmptyDisk == [hosts |-> << >>, jobs |-> << >>, services |-> << >>,
              idempotency |-> << >>]

EmptyState == [hosts |-> << >>, jobs |-> << >>, services |-> << >>,
               nextVersion |-> 1, disk |-> EmptyDisk]

\* INSERT ... ON CONFLICT(id) DO UPDATE: the row of the id is replaced.
upsert(table, id, row) ==
  [k \in (DOMAIN table) \cup {id} |-> IF k = id THEN row ELSE table[k]]

\* storage.saveHost of the host as it is in memory.
saveHost(st, hostId) ==
  [st EXCEPT !.disk.hosts = upsert(@, hostId, st.hosts[hostId])]

saveJobSkipped(st, i) == st

\* storage.saveJob of the job at index i as it is in memory.
saveJob(st, i) ==
  [st EXCEPT !.disk.jobs = upsert(@, st.jobs[i].id, st.jobs[i])]

\* The rows of a table filled from an array of records.
rowsOf(records) ==
  [id \in {records[i].id : i \in DOMAIN records} |->
     records[CHOOSE i \in DOMAIN records : records[i].id = id]]

replaceNothing(st, hosts, jobs) == st

\* storage.replaceAll: the hosts and jobs tables are emptied and filled
\* again in one transaction; the idempotency table is left alone.
replaceAll(st, hosts, jobs) ==
  [st EXCEPT !.disk.hosts = hosts, !.disk.jobs = rowsOf(jobs)]

\* The services table of the store: saveService writes the row of the
\* service at index i, and the replace-all of restore fills the table from
\* the services of the snapshot.
saveService(st, i) ==
  [st EXCEPT !.disk.services = upsert(@, st.services[i].id, st.services[i])]

replaceAllServices(st, services) ==
  [st EXCEPT !.disk.services = rowsOf(services)]

hasHost(st, hostId) == hostId \in DOMAIN st.hosts

\* Map.set on the hosts map.
setHost(st, host) ==
  [st EXCEPT !.hosts =
     [h \in (DOMAIN st.hosts) \cup {host.id} |->
        IF h = host.id THEN host ELSE st.hosts[h]]]

\* Position of the job with this id in the jobs map, 0 when absent.
jobIndex(st, jobId) ==
  IF \E i \in DOMAIN st.jobs : st.jobs[i].id = jobId
  THEN CHOOSE i \in DOMAIN st.jobs : st.jobs[i].id = jobId
  ELSE 0

\* Map.get on the jobs map: the job with this id in a state that holds it.
jobOf(st, jobId) == st.jobs[jobIndex(st, jobId)]

\* Map.has on the jobs map.
hasJob(st, jobId) == jobIndex(st, jobId) # 0

bumpVersionReused(st) == [version |-> st.nextVersion - 1, st |-> st]

\* bumpVersion: hands out nextVersion and increments it.
bumpVersion(st) ==
  [version |-> st.nextVersion,
   st |-> [st EXCEPT !.nextVersion = st.nextVersion + 1]]

\* touchHost: a new version for the host, stamped with the node id.
touchHost(st, node, hostId) ==
  LET b == bumpVersion(st)
  IN saveHost([b.st EXCEPT !.hosts[hostId].version = b.version,
                           !.hosts[hostId].updatedBy = node], hostId)

\* touchJob: updatedAt, a new version and the node id for the job at index i.
touchJob(st, node, now, i) ==
  LET b == bumpVersion(st)
  IN saveJob([b.st EXCEPT !.jobs[i].updatedAt = now,
                          !.jobs[i].version = b.version,
                          !.jobs[i].updatedBy = node], i)

\* registerHost: a new record under the id; the activeLeases of an existing
\* host is kept (as is its registeredAt, which nothing reads).
registerHost(st, node, now, id, capabilities, maxParallel) ==
  LET existing == hasHost(st, id)
      b == bumpVersion(st)
      host == [id |-> id,
               capabilities |-> normalizeCapabilities(capabilities),
               maxParallel |-> Max(1, maxParallel),
               activeLeases |-> IF existing THEN st.hosts[id].activeLeases ELSE 0,
               lastSeenAt |-> now,
               updatedBy |-> node,
               version |-> b.version]
  IN [ok |-> TRUE, st |-> saveHost(setHost(b.st, host), id), ret |-> 0]

\* The value of HeartbeatRequest.activeLeases when the field is absent.
NoLeases == -2

ActiveLeasesInputs(hostId) ==
  IF hostId = "h1" THEN {NoLeases, -1, 0, MaxJobs + 1} ELSE {NoLeases}

\* heartbeat: throws for an unknown host; overwrites activeLeases with a
\* supplied finite number >= 0.
heartbeat(st, node, now, hostId, activeLeases) ==
  IF ~hasHost(st, hostId) THEN [ok |-> FALSE, st |-> st, ret |-> 0]
  ELSE
    LET seen == [st EXCEPT !.hosts[hostId].lastSeenAt = now]
        set == IF activeLeases # NoLeases /\ activeLeases >= 0
               THEN [seen EXCEPT !.hosts[hostId].activeLeases = activeLeases]
               ELSE seen
    IN [ok |-> TRUE, st |-> touchHost(set, node, hostId), ret |-> 0]

\* The submittedBy of a request that names no submitter.
NoSubmitter == "(undefined)"

\* enqueueJob: a queued job with a fresh id, appended to the jobs map; the
\* submitter is trimmed, and an empty one is none.
enqueueJob(st, node, now, id, requirement, submittedBy) ==
  LET b == bumpVersion(st)
      record == [id |-> id,
                 createdAt |-> now,
                 updatedAt |-> now,
                 updatedBy |-> node,
                 version |-> b.version,
                 status |-> "queued",
                 attempts |-> 0,
                 leaseExpiresAt |-> NoTime,
                 assignedHostId |-> NoHost,
                 requiredCapabilities |-> normalizeCapabilities(requirement),
                 submittedBy |->
                   IF submittedBy = NoSubmitter \/ trim(submittedBy) = ""
                   THEN NoSubmitter ELSE trim(submittedBy),
                 hasResult |-> FALSE]
  IN [ok |-> TRUE,
      st |-> saveJob([b.st EXCEPT !.jobs = Append(b.st.jobs, record)],
                     Len(b.st.jobs) + 1),
      ret |-> id]

leaseRunningAtExpiry(job, now) == job.leaseExpiresAt >= now

leaseRunningInverted(job, now) == job.leaseExpiresAt < now

\* new Date(job.leaseExpiresAt).getTime() > now: the lease has not run out.
leaseRunning(job, now) == job.leaseExpiresAt > now

backToQueueKeepingLease(job) ==
  [job EXCEPT !.status = "queued", !.assignedHostId = NoHost]

backToQueueFromScratch(job) ==
  [job EXCEPT !.status = "queued", !.assignedHostId = NoHost,
              !.leaseExpiresAt = NoTime, !.attempts = 0]

\* The assignments of requeueExpiredLeases to a job whose lease ran out.
backToQueue(job) ==
  [job EXCEPT !.status = "queued", !.assignedHostId = NoHost,
              !.leaseExpiresAt = NoTime]

\* One iteration of the loop of requeueExpiredLeases, on the job at index i.
requeueOne(st, node, now, i) ==
  LET job == st.jobs[i]
  IN IF job.status # "leased" \/ job.leaseExpiresAt = NoTime THEN st
     ELSE IF leaseRunning(job, now) THEN st
     ELSE
       LET hostId == job.assignedHostId
           released ==
             IF hostId # NoHost /\ hasHost(st, hostId) /\ st.hosts[hostId].activeLeases > 0
             THEN touchHost([st EXCEPT !.hosts[hostId].activeLeases = @ - 1], node, hostId)
             ELSE st
           cleared == [released EXCEPT !.jobs[i] = backToQueue(job)]
       IN touchJob(cleared, node, now, i)

RECURSIVE requeueFrom(_, _, _, _)
requeueFrom(st, node, now, i) ==
  IF i > Len(st.jobs) THEN st
  ELSE requeueFrom(requeueOne(st, node, now, i), node, now, i + 1)

\* requeueExpiredLeases: every leased job whose lease ended at or before now
\* goes back to queued; returns how many.
requeueExpiredLeases(st, node, now) ==
  LET after == requeueFrom(st, node, now, 1)
  IN [ok |-> TRUE, st |-> after,
      ret |-> Cardinality({i \in DOMAIN st.jobs :
                 st.jobs[i].status # after.jobs[i].status})]

RECURSIVE insertLatestFirst(_, _, _)
insertLatestFirst(jobs, sorted, i) ==
  IF sorted = << >> THEN <<i>>
  ELSE IF jobs[Head(sorted)].createdAt >= jobs[i].createdAt
       THEN <<Head(sorted)>> \o insertLatestFirst(jobs, Tail(sorted), i)
       ELSE <<i>> \o sorted

\* Array.prototype.sort by createdAt, stable: insertion of the index i into
\* an already sorted sequence of indices, after every entry not later than it.
RECURSIVE insertByCreatedAt(_, _, _)
insertByCreatedAt(jobs, sorted, i) ==
  IF sorted = << >> THEN <<i>>
  ELSE IF jobs[Head(sorted)].createdAt <= jobs[i].createdAt
       THEN <<Head(sorted)>> \o insertByCreatedAt(jobs, Tail(sorted), i)
       ELSE <<i>> \o sorted

RECURSIVE sortByCreatedAt(_, _)
sortByCreatedAt(jobs, indices) ==
  IF indices = << >> THEN << >>
  ELSE insertByCreatedAt(jobs,
         sortByCreatedAt(jobs, SubSeq(indices, 1, Len(indices) - 1)),
         indices[Len(indices)])

isUnfinished(job) == job.status \in {"queued", "leased"}

\* The test of the filter of claimJob: job.status === "queued".
isQueued(job) == job.status = "queued"

\* jobs.filter(isQueued): the indices of the queued jobs, in map order.
RECURSIVE filterQueued(_, _)
filterQueued(jobs, i) ==
  IF i > Len(jobs) THEN << >>
  ELSE (IF isQueued(jobs[i]) THEN <<i>> ELSE << >>) \o filterQueued(jobs, i + 1)

\* queued.find(hasCapabilities): the first index of the sequence whose job
\* the host is capable of, 0 when there is none.
RECURSIVE findCapable(_, _, _)
findCapable(jobs, indices, hostCapabilities) ==
  IF indices = << >> THEN 0
  ELSE IF hasCapabilities(hostCapabilities, jobs[Head(indices)].requiredCapabilities)
       THEN Head(indices)
       ELSE findCapable(jobs, Tail(indices), hostCapabilities)

\* claimJob: requeue expired leases, then lease the first queued job in
\* createdAt order that the host is capable of.
claimJob(st, node, now, leaseMs, hostId) ==
  LET swept == requeueExpiredLeases(st, node, now).st
  IN IF ~hasHost(swept, hostId) THEN [ok |-> FALSE, st |-> swept, ret |-> NoJob]
     ELSE IF swept.hosts[hostId].activeLeases >= swept.hosts[hostId].maxParallel
     THEN [ok |-> TRUE, st |-> swept, ret |-> NoJob]
     ELSE
       LET queued == sortByCreatedAt(swept.jobs, filterQueued(swept.jobs, 1))
           next == findCapable(swept.jobs, queued, swept.hosts[hostId].capabilities)
       IN IF next = 0 THEN [ok |-> TRUE, st |-> swept, ret |-> NoJob]
          ELSE
            LET leased == [swept EXCEPT !.jobs[next].status = "leased",
                                        !.jobs[next].attempts = @ + 1,
                                        !.jobs[next].assignedHostId = hostId,
                                        !.jobs[next].leaseExpiresAt = now + leaseMs]
                touched == touchJob(leased, node, now, next)
                counted == [touched EXCEPT !.hosts[hostId].activeLeases = @ + 1]
            IN [ok |-> TRUE, st |-> touchHost(counted, node, hostId),
                ret |-> swept.jobs[next].id]

assignedToSomeone(job, hostId) == job.assignedHostId # NoHost

\* The test job.assignedHostId !== input.hostId of completeJob, negated.
assignedTo(job, hostId) == job.assignedHostId = hostId

\* completeJob: throws unless the host and the job are known, the job is
\* assigned to the host and leased; then records the outcome.
completeJob(st, node, now, jobId, hostId, success) ==
  LET i == jobIndex(st, jobId)
  IN IF ~hasHost(st, hostId) THEN [ok |-> FALSE, st |-> st, ret |-> jobId]
     ELSE IF i = 0 THEN [ok |-> FALSE, st |-> st, ret |-> jobId]
     ELSE IF ~assignedTo(st.jobs[i], hostId) THEN [ok |-> FALSE, st |-> st, ret |-> jobId]
     ELSE IF st.jobs[i].status # "leased" THEN [ok |-> FALSE, st |-> st, ret |-> jobId]
     ELSE
       LET done == [st EXCEPT !.jobs[i].status = IF success THEN "completed" ELSE "failed",
                              !.jobs[i].hasResult = TRUE,
                              !.jobs[i].leaseExpiresAt = NoTime]
           touched == touchJob(done, node, now, i)
           released == IF touched.hosts[hostId].activeLeases > 0
                       THEN [touched EXCEPT !.hosts[hostId].activeLeases = @ - 1]
                       ELSE touched
       IN [ok |-> TRUE, st |-> touchHost(released, node, hostId), ret |-> jobId]

(***************************************************************************)
(* Services: long-lived processes with a number of replicas, each replica  *)
(* an assignment to a host.  The name, command, args, cwd and env of a     *)
(* service and the endpoint and error of an assignment are carried along   *)
(* and read by nothing in the coordinator; they are left out.              *)
(***************************************************************************)
ServiceIds == {"s1", "s2"}
NoService == "null"

\* The value of input.replicas and of input.requiredCapabilities when the
\* field is absent.
NoReplicas == Unset
NoCapabilities == <<"(undefined)">>

\* What the clients deploy: s1 with one replica, for any host; s2 with two
\* replicas or with one and a half, for service hosts or for shell hosts.
ReplicasInputs(serviceId) ==
  IF serviceId = "s1" THEN {NoReplicas, Number(0)} ELSE {Number(2), Halves(3)}
ServiceRequirementInputs(serviceId) ==
  IF serviceId = "s1" THEN {<< >>} ELSE {NoCapabilities, <<"shell">>}
ServiceStatusInputs == {"pending", "running", "failed"}

\* Position of the service with this id in the services map, 0 when absent.
serviceIndex(st, serviceId) ==
  IF \E i \in DOMAIN st.services : st.services[i].id = serviceId
  THEN CHOOSE i \in DOMAIN st.services : st.services[i].id = serviceId
  ELSE 0

hasService(st, serviceId) == serviceIndex(st, serviceId) # 0

serviceOf(st, serviceId) == st.services[serviceIndex(st, serviceId)]

\* touchService: updatedAt, a new version and the node id for the service
\* at index i.
touchService(st, node, now, i) ==
  LET b == bumpVersion(st)
  IN saveService([b.st EXCEPT !.services[i].updatedAt = now,
                              !.services[i].version = b.version,
                              !.services[i].updatedBy = node], i)

\* deployService: a pending service without assignments under the id;
\* Map.set keeps the place of a known id and appends a new one.
deployService(st, node, now, id, replicas, requiredCapabilities) ==
  LET b == bumpVersion(st)
      record == [id |-> id,
                 replicas |-> mathMax(Number(1), IF replicas = NoReplicas
                                                 THEN Number(1) ELSE replicas),
                 requiredCapabilities |->
                   normalizeCapabilities(IF requiredCapabilities = NoCapabilities
                                         THEN <<"service-host">>
                                         ELSE requiredCapabilities),
                 status |-> "pending",
                 createdAt |-> now,
                 updatedAt |-> now,
                 updatedBy |-> node,
                 version |-> b.version,
                 assignments |-> << >>]
      i == serviceIndex(st, id)
      at == IF i = 0 THEN Len(st.services) + 1 ELSE i
  IN [ok |-> TRUE,
      st |-> saveService([b.st EXCEPT !.services =
                            IF i = 0 THEN Append(@, record)
                            ELSE [@ EXCEPT ![i] = record]], at),
      ret |-> id]

\* assignments.find: the position of the assignment of the host, 0 when
\* there is none.
assignmentOf(service, hostId) ==
  IF \E k \in DOMAIN service.assignments : service.assignments[k].hostId = hostId
  THEN CHOOSE k \in DOMAIN service.assignments :
         /\ service.assignments[k].hostId = hostId
         /\ \A j \in 1..(k - 1) : service.assignments[j].hostId # hostId
  ELSE 0

\* The filter of claimService: the indices, from i on, of the services the
\* host is capable of.
RECURSIVE filterCapable(_, _, _)
filterCapable(services, hostCapabilities, i) ==
  IF i > Len(services) THEN << >>
  ELSE IF hasCapabilities(hostCapabilities, services[i].requiredCapabilities)
       THEN <<i>> \o filterCapable(services, hostCapabilities, i + 1)
       ELSE filterCapable(services, hostCapabilities, i + 1)

RECURSIVE claimFromFailedToo(_, _, _, _, _)
claimFromFailedToo(st, node, now, hostId, candidates) ==
  IF candidates = << >> THEN [ok |-> TRUE, st |-> st, ret |-> NoService]
  ELSE
    LET i == Head(candidates)
        service == st.services[i]
        existing == assignmentOf(service, hostId)
    IN IF existing # 0
       THEN [ok |-> TRUE, st |-> st, ret |-> service.id]
       ELSE IF Number(Len(service.assignments)).halves >= service.replicas.halves
       THEN claimFromFailedToo(st, node, now, hostId, Tail(candidates))
       ELSE
         LET pushed == [st EXCEPT !.services[i].assignments =
                          Append(@, [hostId |-> hostId, status |-> "pending",
                                     startedAt |-> NoTime, updatedAt |-> now])]
         IN [ok |-> TRUE, st |-> touchService(pushed, node, now, i),
             ret |-> service.id]

\* The loop of claimService over the candidates: the service the host is
\* already assigned to is returned as it is, unless that assignment failed;
\* a full service is passed over; otherwise the host gets a pending
\* assignment.
RECURSIVE claimFrom(_, _, _, _, _)
claimFrom(st, node, now, hostId, candidates) ==
  IF candidates = << >> THEN [ok |-> TRUE, st |-> st, ret |-> NoService]
  ELSE
    LET i == Head(candidates)
        service == st.services[i]
        existing == assignmentOf(service, hostId)
    IN IF existing # 0
       THEN IF service.assignments[existing].status = "failed"
            THEN claimFrom(st, node, now, hostId, Tail(candidates))
            ELSE [ok |-> TRUE, st |-> st, ret |-> service.id]
       ELSE IF Number(Len(service.assignments)).halves >= service.replicas.halves
       THEN claimFrom(st, node, now, hostId, Tail(candidates))
       ELSE
         LET pushed == [st EXCEPT !.services[i].assignments =
                          Append(@, [hostId |-> hostId, status |-> "pending",
                                     startedAt |-> NoTime, updatedAt |-> now])]
         IN [ok |-> TRUE, st |-> touchService(pushed, node, now, i),
             ret |-> service.id]

\* claimService: throws for an unknown host.
claimService(st, node, now, hostId) ==
  IF ~hasHost(st, hostId) THEN [ok |-> FALSE, st |-> st, ret |-> NoService]
  ELSE claimFrom(st, node, now, hostId,
         sortByCreatedAt(st.services,
           filterCapable(st.services, st.hosts[hostId].capabilities, 1)))

\* The status of a service derived from its assignments.
derivedStatus(assignments) ==
  IF \E k \in DOMAIN assignments : assignments[k].status = "running" THEN "running"
  ELSE IF \E k \in DOMAIN assignments : assignments[k].status = "pending" THEN "pending"
  ELSE "failed"

reportServiceRestarted(st, node, now, serviceId, hostId, status) ==
  LET i == serviceIndex(st, serviceId)
  IN IF i = 0 THEN [ok |-> FALSE, st |-> st, ret |-> serviceId]
     ELSE
       LET k == assignmentOf(st.services[i], hostId)
       IN IF k = 0 THEN [ok |-> FALSE, st |-> st, ret |-> serviceId]
          ELSE
            LET old == st.services[i].assignments[k]
                assignment == [old EXCEPT
                                 !.status = status,
                                 !.updatedAt = now,
                                 !.startedAt =
                                   IF status = "running" THEN now ELSE old.startedAt]
                reported == [st EXCEPT !.services[i].assignments[k] = assignment]
                derived == [reported EXCEPT !.services[i].status =
                              derivedStatus(reported.services[i].assignments)]
            IN [ok |-> TRUE, st |-> touchService(derived, node, now, i),
                ret |-> serviceId]

\* reportService: throws for an unknown service and for a host without an
\* assignment; records the status, stamps startedAt on the first running.
reportService(st, node, now, serviceId, hostId, status) ==
  LET i == serviceIndex(st, serviceId)
  IN IF i = 0 THEN [ok |-> FALSE, st |-> st, ret |-> serviceId]
     ELSE
       LET k == assignmentOf(st.services[i], hostId)
       IN IF k = 0 THEN [ok |-> FALSE, st |-> st, ret |-> serviceId]
          ELSE
            LET old == st.services[i].assignments[k]
                assignment == [old EXCEPT
                                 !.status = status,
                                 !.updatedAt = now,
                                 !.startedAt =
                                   IF status = "running" /\ old.startedAt = NoTime
                                   THEN now ELSE old.startedAt]
                reported == [st EXCEPT !.services[i].assignments[k] = assignment]
                derived == [reported EXCEPT !.services[i].status =
                              derivedStatus(reported.services[i].assignments)]
            IN [ok |-> TRUE, st |-> touchService(derived, node, now, i),
                ret |-> serviceId]

(***************************************************************************)
(* Replication: snapshots, merge by last writer wins, checkpoint and       *)
(* restore, and the number of peer acks a write needs.                     *)
(***************************************************************************)
\* The minReplicas a coordinator runs with when the option is not given.
MinReplicas == 2

normalizeMinReplicasCeiling(value) ==
  Max(1, IF isFinite(value) THEN (value.halves + 1) \div 2 ELSE MinReplicas)

\* normalizeMinReplicas: the floor of a finite value, 2 otherwise, clamped
\* to at least 1.
normalizeMinReplicas(value) ==
  Max(1, IF isFinite(value) THEN floor(value) ELSE MinReplicas)

requiredPeerReplications(minReplicas) ==
  Max(0, normalizeMinReplicas(minReplicas) - 1)

\* assertPeerCapacity: throws when the peers are fewer than the peer
\* replications that minReplicas requires.
assertPeerCapacity(minReplicas, peerCount) ==
  LET requiredPeers == requiredPeerReplications(minReplicas)
  IN [ok |-> ~(peerCount < requiredPeers), ret |-> requiredPeers]

\* buildInitialPeerSet: the configured peers of a node, itself left out.
Peers(n) == Nodes \ {n}

\* The > of JavaScript on the node ids that stamp updatedBy.
stringAfter(a, b) == a = "node-b" /\ b = "node-a"

\* record.updatedAt || "": a HostRecord has no updatedAt, and the empty
\* string sorts before every timestamp.
updatedAtOf(record) ==
  IF "updatedAt" \in DOMAIN record THEN record.updatedAt ELSE NoTime

shouldAdoptNotOlder(local, incoming) == incoming.version >= local.version

\* shouldAdopt: the higher version wins, then the later updatedAt, then the
\* greater updatedBy.
shouldAdopt(local, incoming) ==
  IF incoming.version # local.version THEN incoming.version > local.version
  ELSE IF updatedAtOf(incoming) # updatedAtOf(local)
       THEN updatedAtOf(incoming) > updatedAtOf(local)
       ELSE stringAfter(incoming.updatedBy, local.updatedBy)

\* One iteration of the host loop of mergeSnapshot, on the state and the
\* changed flag of the call.
mergeHost(acc, incoming) ==
  LET st == acc.st
  IN IF ~hasHost(st, incoming.id) \/ shouldAdopt(st.hosts[incoming.id], incoming)
     THEN [changed |-> TRUE,
           st |-> saveHost([setHost(st, incoming) EXCEPT
                              !.nextVersion = Max(st.nextVersion, incoming.version + 1)],
                           incoming.id)]
     ELSE acc

RECURSIVE mergeHosts(_, _, _)
mergeHosts(acc, hosts, ids) ==
  IF ids = {} THEN acc
  ELSE LET id == CHOOSE x \in ids : TRUE
       IN mergeHosts(mergeHost(acc, hosts[id]), hosts, ids \ {id})

\* One iteration of the job loop of mergeSnapshot; Map.set keeps the place
\* of a known id and appends a new one.
mergeJob(acc, incoming) ==
  LET st == acc.st
      i == jobIndex(st, incoming.id)
  IN IF i = 0
     THEN [changed |-> TRUE,
           st |-> saveJob([st EXCEPT !.jobs = Append(@, incoming),
                                     !.nextVersion = Max(@, incoming.version + 1)],
                          Len(st.jobs) + 1)]
     ELSE IF shouldAdopt(st.jobs[i], incoming)
     THEN [changed |-> TRUE,
           st |-> saveJob([st EXCEPT !.jobs[i] = incoming,
                                     !.nextVersion = Max(@, incoming.version + 1)], i)]
     ELSE acc

RECURSIVE mergeJobs(_, _)
mergeJobs(acc, jobs) ==
  IF jobs = << >> THEN acc
  ELSE mergeJobs(mergeJob(acc, Head(jobs)), Tail(jobs))

\* One iteration of the service loop of mergeSnapshot.
mergeService(acc, incoming) ==
  LET st == acc.st
      i == serviceIndex(st, incoming.id)
  IN IF i = 0
     THEN [changed |-> TRUE,
           st |-> saveService([st EXCEPT !.services = Append(@, incoming),
                                         !.nextVersion = Max(@, incoming.version + 1)],
                              Len(st.services) + 1)]
     ELSE IF shouldAdopt(st.services[i], incoming)
     THEN [changed |-> TRUE,
           st |-> saveService([st EXCEPT !.services[i] = incoming,
                                         !.nextVersion = Max(@, incoming.version + 1)], i)]
     ELSE acc

RECURSIVE mergeServices(_, _)
mergeServices(acc, services) ==
  IF services = << >> THEN acc
  ELSE mergeServices(mergeService(acc, Head(services)), Tail(services))

\* mergeSnapshot: the hosts, then the jobs, then the services, each in the
\* order of the snapshot; changed tells whether anything was adopted.
mergeSnapshot(st, snap) ==
  mergeServices(
    mergeJobs(
      mergeHosts([changed |-> FALSE, st |-> st], snap.hosts, DOMAIN snap.hosts),
      snap.jobs),
    snap.services)

allIndices(jobs) == [i \in 1..Len(jobs) |-> i]

\* records.sort by createdAt.
sorted(records) ==
  LET order == sortByCreatedAt(records, allIndices(records))
  IN [k \in 1..Len(order) |-> records[order[k]]]

\* snapshotInternal: the hosts, and the jobs and the services sorted by
\* createdAt.
snapshotInternal(st, node) ==
  [nodeId |-> node,
   hosts |-> st.hosts,
   jobs |-> sorted(st.jobs),
   services |-> sorted(st.services)]

snapshotUnswept(st, node, now) ==
  [st |-> st, snapshot |-> snapshotInternal(st, node)]

\* snapshot: requeues the expired leases, then snapshotInternal.
snapshot(st, node, now) ==
  LET swept == requeueExpiredLeases(st, node, now).st
  IN [st |-> swept, snapshot |-> snapshotInternal(swept, node)]

\* checkpoint: snapshotInternal without the sweep.
checkpoint(st, node) == snapshotInternal(st, node)

RECURSIVE maxOf(_)
maxOf(S) ==
  IF S = {} THEN 0
  ELSE LET x == CHOOSE y \in S : TRUE IN Max(x, maxOf(S \ {x}))

restoreWithoutClear(st, snap) == mergeSnapshot(st, snap).st

\* restore: the maps are cleared and filled from the snapshot; nextVersion
\* is one more than the highest version found; the tables of the storage
\* are replaced.
restore(st, snap) ==
  replaceAllServices(
    replaceAll(
      [hosts |-> snap.hosts,
       jobs |-> snap.jobs,
       services |-> snap.services,
       nextVersion |->
         maxOf({snap.hosts[h].version : h \in DOMAIN snap.hosts}
               \cup {snap.jobs[i].version : i \in DOMAIN snap.jobs}
               \cup {snap.services[i].version : i \in DOMAIN snap.services}) + 1,
       disk |-> st.disk],
      snap.hosts, snap.jobs),
    snap.services)

\* JSON.parse(JSON.stringify(record)): the keys whose value is undefined
\* are left out of the text, and a key that the text does not have reads as
\* undefined.  optional gives the keys of the record that may be undefined,
\* each with the value that stands for undefined.
stringify(record, optional) ==
  [k \in {f \in DOMAIN record :
            ~(f \in DOMAIN optional /\ record[f] = optional[f])} |-> record[k]]

parse(json, optional) ==
  [k \in (DOMAIN json) \cup (DOMAIN optional) |->
     IF k \in DOMAIN json THEN json[k] ELSE optional[k]]

OptionalOfHost == << >>
OptionalOfJob ==
  [leaseExpiresAt |-> NoTime, assignedHostId |-> NoHost,
   submittedBy |-> NoSubmitter]

\* loadHosts: the rows of the hosts table, parsed.
loadHosts(disk) ==
  [id \in DOMAIN disk.hosts |->
     parse(stringify(disk.hosts[id], OptionalOfHost), OptionalOfHost)]

\* ORDER BY created_at ASC: the orders that the rows of a table can be read
\* in; rows of the same created_at come in any order.
RowOrders(rows) ==
  {order \in [1..Cardinality(DOMAIN rows) -> DOMAIN rows] :
     /\ \A i, j \in DOMAIN order : i # j => order[i] # order[j]
     /\ \A i, j \in DOMAIN order :
          i < j => rows[order[i]].createdAt <= rows[order[j]].createdAt}

\* loadJobs: the rows of the jobs table in the order they are read in,
\* parsed.
loadJobs(disk, order) ==
  [i \in DOMAIN order |->
     parse(stringify(disk.jobs[order[i]], OptionalOfJob), OptionalOfJob)]

\* loadServices: the rows of the services table in the order they are read
\* in.
loadServices(disk, order) == [i \in DOMAIN order |-> disk.services[order[i]]]

CoordinatorStateSameVersion(disk, jobOrder, serviceOrder) ==
  LET hosts == loadHosts(disk)
      jobs == loadJobs(disk, jobOrder)
      services == loadServices(disk, serviceOrder)
  IN [hosts |-> hosts, jobs |-> jobs, services |-> services,
      nextVersion |->
        Max(1, maxOf({hosts[h].version : h \in DOMAIN hosts}
                     \cup {jobs[i].version : i \in DOMAIN jobs}
                     \cup {services[i].version : i \in DOMAIN services})),
      disk |-> disk]

\* new CoordinatorState({dbPath}) on a store that holds the tables disk:
\* the maps are filled from the tables, and nextVersion is one more than
\* the highest version loaded.
CoordinatorState(disk, jobOrder, serviceOrder) ==
  LET hosts == loadHosts(disk)
      jobs == loadJobs(disk, jobOrder)
      services == loadServices(disk, serviceOrder)
  IN [hosts |-> hosts, jobs |-> jobs, services |-> services,
      nextVersion |->
        Max(maxOf({hosts[h].version : h \in DOMAIN hosts}),
            Max(maxOf({jobs[i].version : i \in DOMAIN jobs}),
                maxOf({services[i].version : i \in DOMAIN services}))) + 1,
      disk |-> disk]

\* A request to a mutating route of the coordinator.
RegisterRequests ==
  {[op |-> "registerHost", hostId |-> id, capabilities |-> caps, maxParallel |-> m] :
     id \in HostIds, caps \in UNION {HostCapabilityInputs(h) : h \in HostIds},
     m \in UNION {MaxParallelInputs(h) : h \in HostIds}}

Requests(jobIds) ==
  {r \in RegisterRequests :
     r.capabilities \in HostCapabilityInputs(r.hostId)
       /\ r.maxParallel \in MaxParallelInputs(r.hostId)}
  \cup {[op |-> "enqueueJob", requirement |-> q] : q \in RequirementInputs}
  \cup {[op |-> "claimJob", hostId |-> id] : id \in HostIds}
  \cup {[op |-> "completeJob", jobId |-> j, hostId |-> id, success |-> b] :
          j \in jobIds, id \in HostIds, b \in BOOLEAN}

\* The requests to the service routes.
ServiceRequests ==
  {[op |-> "deployService", serviceId |-> s, replicas |-> k,
    requiredCapabilities |-> q] :
     s \in ServiceIds, k \in UNION {ReplicasInputs(x) : x \in ServiceIds},
     q \in UNION {ServiceRequirementInputs(x) : x \in ServiceIds}}
  \cup {[op |-> "claimService", hostId |-> id] : id \in HostIds}
  \cup {[op |-> "reportService", serviceId |-> s, hostId |-> id, status |-> x] :
          s \in ServiceIds, id \in HostIds, x \in ServiceStatusInputs}

\* The mutate callback the route hands to applyMutationWithQuorum.
mutate(st, node, now, leaseMs, req, freshId) ==
  CASE req.op = "registerHost" ->
         registerHost(st, node, now, req.hostId, req.capabilities, req.maxParallel)
    [] req.op = "enqueueJob" ->
         enqueueJob(st, node, now, freshId, req.requirement,
                    IF "submittedBy" \in DOMAIN req THEN req.submittedBy
                    ELSE NoSubmitter)
    [] req.op = "claimJob" ->
         claimJob(st, node, now, leaseMs, req.hostId)
    [] req.op = "completeJob" ->
         completeJob(st, node, now, req.jobId, req.hostId, req.success)
    [] req.op = "deployService" ->
         deployService(st, node, now, req.serviceId, req.replicas,
                       req.requiredCapabilities)
    [] req.op = "claimService" ->
         claimService(st, node, now, req.hostId)
    [] req.op = "reportService" ->
         reportService(st, node, now, req.serviceId, req.hostId, req.status)

(***************************************************************************)
(* The base URLs of the coordinators.  A URL string is given by what new   *)
(* URL makes of it: a blank string, a text that does not parse, or a URL   *)
(* with its host and the segments of its path, where << >> is no path at   *)
(* all, <<"">> is "/", and a last segment "" is a trailing slash.          *)
(***************************************************************************)
NoUrl == [kind |-> "undefined"]
Blank == [kind |-> "blank"]
Unparsable == [kind |-> "text"]
Url(host, path) == [kind |-> "url", host |-> host, path |-> path]

\* normalizeBaseUrl: undefined for a missing, blank or unparsable string;
\* otherwise protocol, host and path, the path "/" dropped and one
\* trailing slash of a longer path removed.
normalizeBaseUrl(url) ==
  IF url.kind # "url" THEN NoUrl
  ELSE IF url.path \in {<< >>, <<"">>} THEN Url(url.host, << >>)
  ELSE IF url.path[Len(url.path)] = ""
       THEN Url(url.host, SubSeq(url.path, 1, Len(url.path) - 1))
       ELSE url

buildInitialPeerSetWithSelf(urls, selfUrl) ==
  {normalizeBaseUrl(urls[i]) : i \in DOMAIN urls} \ {NoUrl}

\* buildInitialPeerSet: the normalized seeds but the node's own URL.
buildInitialPeerSet(urls, selfUrl) ==
  {normalizeBaseUrl(urls[i]) : i \in DOMAIN urls} \ {NoUrl, selfUrl}

(***************************************************************************)
(* The state machine.  coord[n] is the CoordinatorState of node n, now the *)
(* wall clock, leaseMs the lease length the coordinators were constructed  *)
(* with, minReplicas their minReplicas option, options their further       *)
(* options, peerSet[n] the peer set of the server of node n, opened[n]     *)
(* how many CoordinatorState objects were made on the dbPath of node n and *)
(* the jobs that the last of them loaded, with the time it was made at,    *)
(* minted the number of job ids made so far, and lastOp the last           *)
(* operation with its arguments and its outcome.  write[n] is the quorum   *)
(* write node n has in flight, net the requests and responses between the  *)
(* coordinators, granted the leases that claim requests were answered      *)
(* with.                                                                   *)
(***************************************************************************)
VARIABLES coord, now, leaseMs, minReplicas, options, peerSet, opened, minted,
          lastOp, write, net, granted, gateway, daemon, overlap

vars ==
  <<coord, now, leaseMs, minReplicas, options, peerSet, opened, minted, lastOp,
    write, net, granted, gateway, daemon, overlap>>

\* The options the coordinators were started with, their peer sets, which
\* only the network routes and the discovery change, and what they loaded
\* when their stores were opened: no state operation touches any of them.
config ==
  <<leaseMs, minReplicas, options, peerSet, opened, gateway, daemon, overlap>>

\* The GatewayRegistry after its construction: no service key, no endpoint
\* health; served keeps, for each service key, what nextEndpoint has
\* returned since the registry was last updated.
NoRegistry == [states |-> << >>, endpointHealth |-> << >>, served |-> << >>]

\* The host daemon before it has registered.  activeLeases is that of the
\* host record it keeps, job the job it runs, beat the activeLeases of the
\* host record in the answer of a heartbeat that is on its way back.
NoDaemon == [phase |-> "start", activeLeases |-> 0, job |-> NoJob, beat |-> NoLeases]

\* The requests node-a handles side by side, each in a slot of its own; none
\* has arrived.
MaxOverlap == 2
Slots == 1..MaxOverlap
NoRequests == [k \in Slots |-> [phase |-> "idle"]]

\* The further options of startCoordinatorServer when none is given: no
\* public API keys, no public URL and no peer URLs.
DefaultOptions ==
  [publicApiKeys |-> << >>, publicUrl |-> NoUrl, peerUrls |-> << >>]

\* selfPublicUrl and the peerSet of startCoordinatorServer.  The quorum
\* writes of the model go to Peers(n), the other coordinators, whatever
\* peerSet holds.
selfPublicUrl == normalizeBaseUrl(options.publicUrl)
Serving ==
  /\ peerSet = [n \in Nodes |-> buildInitialPeerSet(options.peerUrls, selfPublicUrl)]
  /\ gateway = NoRegistry
  /\ daemon = NoDaemon
  /\ overlap = NoRequests

replication == <<write, net, granted>>

NoWrite == [phase |-> "idle"]

Op(name, node, hostId, jobId, ok, ret) ==
  [op |-> name, node |-> node, hostId |-> hostId, jobId |-> jobId,
   ok |-> ok, ret |-> ret]

\* The coordinators have just been started, on empty stores.
Started ==
  /\ coord = [n \in Nodes |-> EmptyState]
  /\ now = 0
  /\ leaseMs \in 1..MaxTime
  /\ minted = 0
  /\ opened = [n \in Nodes |-> [count |-> 1, jobs |-> << >>, at |-> 0]]
  /\ lastOp = Op("init", LocalNode, NoHost, NoJob, TRUE, 0)
  /\ write = [n \in Nodes |-> NoWrite]
  /\ net = {}
  /\ granted = {}

Init == Started /\ minReplicas = Unset /\ options = DefaultOptions /\ Serving

local == coord[LocalNode]

\* The versions of the model stay within MaxVersion.
WithinBounds(st) == st.nextVersion <= MaxVersion + 1

\* The state operation r was applied on node n.  lastOp is the last
\* operation that changed the state, with its arguments and what it returned;
\* an operation that changes nothing (a throw before any assignment, a claim
\* that finds no job, a sweep that finds no expired lease) leaves no trace.
Applied(n, r, name, hostId, jobId) ==
  /\ WithinBounds(r.st)
  /\ coord' = [coord EXCEPT ![n] = r.st]
  /\ lastOp' = IF r.st = coord[n] THEN lastOp
                ELSE Op(name, n, hostId, jobId, r.ok, r.ret)

Tick ==
  /\ now < MaxTime
  /\ now' = now + 1
  /\ lastOp' = Op("tick", LocalNode, NoHost, NoJob, TRUE, 0)
  /\ UNCHANGED <<coord, config, minted, replication>>

RegisterHost(n) ==
  \E id \in HostIds :
   \E caps \in HostCapabilityInputs(id), maxParallel \in MaxParallelInputs(id) :
    /\ Applied(n, registerHost(coord[n], n, now, id, caps, maxParallel),
               "registerHost", id, NoJob)
    /\ UNCHANGED <<now, config, minted, replication>>

Heartbeat(n) ==
  \E id \in HostIds :
   \E activeLeases \in ActiveLeasesInputs(id) :
    /\ Applied(n, heartbeat(coord[n], n, now, id, activeLeases),
               "heartbeat", id, NoJob)
    /\ UNCHANGED <<now, config, minted, replication>>

EnqueueJob(n) ==
  \E requirement \in RequirementInputs :
    /\ Len(coord[n].jobs) < MaxJobs
    /\ Applied(n, enqueueJob(coord[n], n, now, minted + 1, requirement,
                              NoSubmitter),
               "enqueueJob", NoHost, minted + 1)
    /\ minted' = minted + 1
    /\ UNCHANGED <<now, config, replication>>

ClaimJob(n) ==
  \E id \in HostIds :
    /\ Applied(n, claimJob(coord[n], n, now, leaseMs, id), "claimJob", id, NoJob)
    /\ UNCHANGED <<now, config, minted, replication>>

CompleteJob(n) ==
  \E jobId \in 1..(minted + 1), id \in HostIds, success \in BOOLEAN :
    /\ Applied(n, completeJob(coord[n], n, now, jobId, id, success),
               "completeJob", id, jobId)
    /\ UNCHANGED <<now, config, minted, replication>>

RequeueExpiredLeases(n) ==
  /\ Applied(n, requeueExpiredLeases(coord[n], n, now),
             "requeueExpiredLeases", NoHost, NoJob)
  /\ UNCHANGED <<now, config, minted, replication>>

DeployService(n) ==
  \E id \in ServiceIds :
   \E replicas \in ReplicasInputs(id), caps \in ServiceRequirementInputs(id) :
    /\ Applied(n, deployService(coord[n], n, now, id, replicas, caps),
               "deployService", NoHost, NoJob)
    /\ UNCHANGED <<now, config, minted, replication>>

ClaimService(n) ==
  \E id \in HostIds :
    /\ Applied(n, claimService(coord[n], n, now, id), "claimService", id, NoJob)
    /\ UNCHANGED <<now, config, minted, replication>>

ReportService(n) ==
  \E serviceId \in ServiceIds, id \in HostIds, status \in ServiceStatusInputs :
    /\ Applied(n, reportService(coord[n], n, now, serviceId, id, status),
               "reportService", id, NoJob)
    /\ UNCHANGED <<now, config, minted, replication>>

Next ==
  \/ Tick
  \/ RegisterHost(LocalNode)
  \/ Heartbeat(LocalNode)
  \/ EnqueueJob(LocalNode)
  \/ ClaimJob(LocalNode)
  \/ CompleteJob(LocalNode)
  \/ RequeueExpiredLeases(LocalNode)

Spec == Init /\ [][Next]_vars

(***************************************************************************)
(* One coordinator with its services: the nine operations that change the  *)
(* state, up to MaxLocalVersion versions and MaxLocalJobs jobs.            *)
(***************************************************************************)
MaxLocalVersion == 6
MaxLocalJobs == 1
MaxLocalHosts == 1
MaxLocalServices == 1

\* The step stays within the versions and the jobs of the specification.
Within(maxVersion, maxJobs) ==
  /\ coord'[LocalNode].nextVersion <= maxVersion + 1
  /\ minted' <= maxJobs

LocalOperation ==
  \/ RegisterHost(LocalNode)
  \/ Heartbeat(LocalNode)
  \/ EnqueueJob(LocalNode)
  \/ ClaimJob(LocalNode)
  \/ CompleteJob(LocalNode)
  \/ RequeueExpiredLeases(LocalNode)
  \/ DeployService(LocalNode)
  \/ ClaimService(LocalNode)
  \/ ReportService(LocalNode)

\* The hosts and services of the coordinator after the step are within the
\* bounds.
WithinEntities(maxHosts, maxServices) ==
  /\ Cardinality(DOMAIN coord'[LocalNode].hosts) <= maxHosts
  /\ Len(coord'[LocalNode].services) <= maxServices

NextServices ==
  \/ Tick
  \/ /\ LocalOperation
     /\ Within(MaxLocalVersion, MaxLocalJobs)
     /\ WithinEntities(MaxLocalHosts, MaxLocalServices)

SpecServices == Init /\ [][NextServices]_vars

(***************************************************************************)
(* One coordinator with its hosts and services and no jobs: the hosts      *)
(* register, services are deployed and deployed again, and the hosts claim *)
(* services and report on them, up to MaxFleetVersion versions.            *)
(***************************************************************************)
MaxFleetVersion == 6

FleetOperation ==
  \/ RegisterHost(LocalNode)
  \/ DeployService(LocalNode)
  \/ ClaimService(LocalNode)
  \/ ReportService(LocalNode)

NextFleet ==
  \/ Tick
  \/ FleetOperation /\ Within(MaxFleetVersion, minted)

SpecFleet == Init /\ [][NextFleet]_vars

(***************************************************************************)
(* Checkpoint and restore on one coordinator, as the rollback test of the  *)
(* state does it: a checkpoint is taken at any time, kept in               *)
(* write[LocalNode], and restored after any number of operations.          *)
(***************************************************************************)
MaxRollbackVersion == 3

Checkpoint ==
  /\ write' = [write EXCEPT ![LocalNode] =
                 [phase |-> "checkpointed",
                  checkpoint |-> checkpoint(local, LocalNode)]]
  /\ lastOp' = Op("checkpoint", LocalNode, NoHost, NoJob, TRUE, 0)
  /\ UNCHANGED <<coord, now, config, minted, net, granted>>

Restore ==
  /\ write[LocalNode].phase = "checkpointed"
  /\ coord' = [coord EXCEPT ![LocalNode] = restore(local, write[LocalNode].checkpoint)]
  /\ lastOp' = Op("restore", LocalNode, NoHost, NoJob, TRUE, 0)
  /\ UNCHANGED <<now, config, minted, replication>>

NextRollback ==
  \/ Tick
  \/ LocalOperation /\ Within(MaxRollbackVersion, MaxLocalJobs)
  \/ Checkpoint
  \/ Restore

SpecRollback == Init /\ [][NextRollback]_vars

(***************************************************************************)
(* One coordinator that is stopped between two operations and started      *)
(* again on the same dbPath, as the restart test of the state does it: a   *)
(* new CoordinatorState takes the place of the old one, and what the old   *)
(* one held in memory is gone.                                             *)
(***************************************************************************)
MaxRestartVersion == 6
MaxRestarts == 1

Restart ==
  /\ opened[LocalNode].count <= MaxRestarts
  /\ \E jobOrder \in RowOrders(local.disk.jobs),
        serviceOrder \in RowOrders(local.disk.services) :
       LET state == CoordinatorState(local.disk, jobOrder, serviceOrder)
       IN /\ coord' = [coord EXCEPT ![LocalNode] = state]
          /\ opened' = [opened EXCEPT ![LocalNode] =
               [count |-> @.count + 1, jobs |-> state.jobs, at |-> now]]
  /\ write' = [write EXCEPT ![LocalNode] = NoWrite]
  /\ lastOp' = Op("restart", LocalNode, NoHost, NoJob, TRUE, 0)
  /\ UNCHANGED <<now, leaseMs, minReplicas, options, peerSet, minted, net,
                 granted, gateway, daemon, overlap>>

\* The operations on the hosts and the jobs, and the deployment of a
\* service.
StoredOperation ==
  \/ RegisterHost(LocalNode)
  \/ Heartbeat(LocalNode)
  \/ EnqueueJob(LocalNode)
  \/ ClaimJob(LocalNode)
  \/ CompleteJob(LocalNode)
  \/ RequeueExpiredLeases(LocalNode)
  \/ DeployService(LocalNode)

NextRestart ==
  \/ Tick
  \/ /\ StoredOperation
     /\ Within(MaxRestartVersion, MaxLocalJobs)
     /\ WithinEntities(MaxLocalHosts, MaxLocalServices)
  \/ Restart

SpecRestart == Init /\ [][NextRestart]_vars

(***************************************************************************)
(* The cluster: every mutating route runs applyMutationWithQuorum, which   *)
(* takes a checkpoint, applies the mutation, pushes a snapshot to every    *)
(* peer, and restores the checkpoint when too few peers answer 2xx.         *)
(***************************************************************************)
\* coordinatorUrls of the host daemons: h1 talks to node-a, h2 to node-b.
CoordinatorOf(hostId) == IF hostId = "h1" THEN "node-a" ELSE "node-b"

\* The requests that reach node n.  A host daemon runs with maxParallel 1
\* and registers when it starts, that is while its coordinator does not
\* know it; from then on it claims and completes.
RequestsAt(n, st, jobIds) ==
  {req \in Requests(jobIds) :
     /\ req.op # "enqueueJob" => CoordinatorOf(req.hostId) = n
     /\ req.op = "registerHost" =>
          Max(1, req.maxParallel) = 1 /\ ~hasHost(st, req.hostId)}

requiredPeerAcksNone == requiredPeerReplications(Number(1))

\* requiredPeerAcks of startCoordinatorServer.
requiredPeerAcks ==
  requiredPeerReplications(Number(normalizeMinReplicas(minReplicas)))

\* What a specification of the cluster lets happen: the requests that
\* reach node n, the versions and the jobs it goes up to, and whether the
\* answer of a request is kept in write[n] once the request is over.
ClusterScope(n) ==
  [requests |-> RequestsAt(n, coord[n], 1..(minted + 1)),
   maxVersion |-> MaxClusterVersion,
   maxJobs |-> MaxClusterJobs,
   answers |-> FALSE,
   replies |-> FALSE]

\* The body sendError answers with, and the body toResponseBody makes of
\* the value of a mutation.
errorBody(message) == [error |-> message]
toResponseBody(value) == [value |-> value]

\* The error of a conflict names the route.
conflictBody(route) ==
  [error |-> "idempotency key reuse conflict", route |-> route]

\* write[n] once a request is over: nothing, the outcome, or the outcome
\* with the request and the status code and body that sendJson or
\* sendError answers it with.
Answered(scope, req, result, statusCode, body) ==
  IF ~scope.answers THEN NoWrite
  ELSE IF ~scope.replies THEN [phase |-> "idle", result |-> result]
  ELSE [phase |-> "idle", result |-> result, req |-> req,
        statusCode |-> statusCode, body |-> body]

\* readIdempotencyKey: the x-idempotency-key header, trimmed; an absent or
\* empty header is no key.
NoKey == ""
keyOf(req) == IF "key" \in DOMAIN req THEN req.key ELSE NoKey

\* The route string a handler passes on: the path, with the id it carries.
routeOf(req) ==
  CASE req.op = "registerHost" -> [path |-> "/v1/hosts/register", id |-> ""]
    [] req.op = "enqueueJob" ->
         [path |-> IF "apiKey" \in DOMAIN req THEN "/v1/public/jobs"
                   ELSE "/v1/jobs",
          id |-> ""]
    [] req.op = "claimJob" -> [path |-> "/v1/hosts/:id/claim", id |-> req.hostId]
    [] req.op = "completeJob" ->
         [path |-> "/v1/jobs/:id/complete", id |-> ToString(req.jobId)]
    [] req.op = "deployService" -> [path |-> "/v1/services", id |-> ""]
    [] req.op = "claimService" ->
         [path |-> "/v1/hosts/:id/services/claim", id |-> req.hostId]
    [] req.op = "reportService" ->
         [path |-> "/v1/services/:id/report", id |-> req.serviceId]

\* The JSON body of a request: its fields but the one the path carries.
bodyOf(req) ==
  LET inPath == CASE req.op \in {"claimJob", "claimService"} -> {"hostId"}
                  [] req.op = "completeJob" -> {"jobId"}
                  [] req.op = "reportService" -> {"serviceId"}
                  [] OTHER -> {}
  IN [f \in (DOMAIN req) \ ({"op", "key", "apiKey"} \cup inPath) |-> req[f]]

hashIdempotencyRoute(req) == [route |-> routeOf(req), body |-> << >>]

\* hashIdempotencyRequest: the digest of the route and of the canonical
\* body, represented by the route and the body themselves.
hashIdempotencyRequest(req) == [route |-> routeOf(req), body |-> bodyOf(req)]

hasIdempotencyNever(st, route, key) == FALSE

\* state.getIdempotency: the row of the route and the key, if any.
hasIdempotency(st, route, key) == <<route, key>> \in DOMAIN st.disk.idempotency
getIdempotency(st, route, key) == st.disk.idempotency[<<route, key>>]

saveIdempotencyByKey(st, route, key, requestHash, statusCode, body) ==
  [st EXCEPT !.disk.idempotency =
     upsert(@, <<[path |-> "", id |-> ""], key>>,
            [requestHash |-> requestHash, statusCode |-> statusCode,
             body |-> body])]

\* state.saveIdempotency: the row of the route and the key is written.
saveIdempotency(st, route, key, requestHash, statusCode, body) ==
  [st EXCEPT !.disk.idempotency =
     upsert(@, <<route, key>>,
            [requestHash |-> requestHash, statusCode |-> statusCode,
             body |-> body])]

countAttempted(acked, ok) == acked + 1

\* results.filter(Boolean).length, one result at a time.
countAcked(acked, ok) == acked + (IF ok THEN 1 ELSE 0)

(***************************************************************************)
(* The public API: POST /v1/public/jobs and GET /v1/public/jobs/:id, for   *)
(* the clients that hold one of options.publicApiKeys.  The payload of a   *)
(* job is not part of the model, and with it the check of allowShell.      *)
(***************************************************************************)
\* The label of a key that has none.
NoLabel == "(undefined)"

\* resolvePublicApiKey: the first rule with the key of the request, if any.
NoApiKey == [key |-> ""]
resolvePublicApiKey(bearer, rules) ==
  IF bearer # "" /\ \E i \in DOMAIN rules : rules[i].key = bearer
  THEN rules[CHOOSE i \in DOMAIN rules :
               /\ rules[i].key = bearer
               /\ \A j \in 1..(i - 1) : rules[j].key # bearer]
  ELSE NoApiKey

\* toPublicSubmitterId: the label of the key, anonymous when it has none
\* or an empty one.
toPublicSubmitterId(apiKey) ==
  "public:" \o (IF apiKey.label \in {NoLabel, ""} THEN "anonymous"
                ELSE apiKey.label)

\* toPublicJobResponse: the job without its submittedBy.
toPublicJobResponse(job) == [f \in (DOMAIN job) \ {"submittedBy"} |-> job[f]]

\* The capabilities a key may ask for.
allowedCapabilities(apiKey) ==
  IF apiKey.allowedCapabilities # << >> THEN apiKey.allowedCapabilities
  ELSE <<"openclaw">>

\* What the routes of the public API answer before they come to the job:
\* 503 without configured keys, 401 for an unknown key, and for a
\* submission 403 when a requested capability is not allowed; status 0
\* when the request goes through.
publicRefusal(req) ==
  LET apiKey == resolvePublicApiKey(req.apiKey, options.publicApiKeys)
      requested == IF req.op = "publicGetJob" \/ req.requirement = NoCapabilities
                   THEN << >> ELSE req.requirement
      allowed == allowedCapabilities(apiKey)
  IN IF options.publicApiKeys = << >>
     THEN [statusCode |-> 503, body |-> errorBody("public api is disabled")]
     ELSE IF apiKey = NoApiKey
     THEN [statusCode |-> 401, body |-> errorBody("invalid api key")]
     ELSE IF \E i \in DOMAIN requested :
               \A j \in DOMAIN allowed : allowed[j] # requested[i]
     THEN [statusCode |-> 403,
           body |-> errorBody("requested capabilities are not allowed for this api key")]
     ELSE [statusCode |-> 0, body |-> errorBody("")]

\* The enqueueRequest POST /v1/public/jobs makes of its body: the
\* requirement defaults to the allowed capabilities, the submitter is the
\* public id of the key.
enqueueRequest(req) ==
  LET apiKey == resolvePublicApiKey(req.apiKey, options.publicApiKeys)
  IN [op |-> "enqueueJob",
      apiKey |-> req.apiKey,
      requirement |-> IF req.requirement = NoCapabilities
                      THEN allowedCapabilities(apiKey) ELSE req.requirement,
      submittedBy |-> toPublicSubmitterId(apiKey)]

\* GET /v1/public/jobs/:id: 404 for an unknown job and for the job of
\* another submitter, otherwise the job without its submittedBy.
publicGetJob(st, req) ==
  LET apiKey == resolvePublicApiKey(req.apiKey, options.publicApiKeys)
  IN IF publicRefusal(req).statusCode # 0 THEN publicRefusal(req)
     ELSE IF ~hasJob(st, req.jobId)
     THEN [statusCode |-> 404, body |-> errorBody("job not found")]
     ELSE IF jobOf(st, req.jobId).submittedBy # toPublicSubmitterId(apiKey)
     THEN [statusCode |-> 404, body |-> errorBody("job not found")]
     ELSE [statusCode |-> 200,
           body |-> [job |-> toPublicJobResponse(jobOf(st, req.jobId))]]

\* A mutating route up to its first await.  The public route refuses what
\* publicRefusal says.  applyIdempotentMutation answers
\* a request whose key has a row without running it; applyMutationWithQuorum
\* refuses when the peers are fewer than the acks it needs, and otherwise
\* takes the checkpoint, applies the mutation and sends the snapshot that
\* replicateSnapshotToPeers takes to every peer.  A mutation that throws
\* restores the checkpoint.
Write(n, scope) ==
  /\ write[n].phase = "idle"
  /\ \E received \in scope.requests :
       LET public == received.op = "publicEnqueueJob"
           refused == public /\ publicRefusal(received).statusCode # 0
           req == IF public /\ ~refused THEN enqueueRequest(received)
                  ELSE received
           key == keyOf(req)
           cp == checkpoint(coord[n], n)
           r == mutate(coord[n], n, now, leaseMs, req, minted + 1)
           s == snapshot(r.st, n, now)
       IN IF refused
          THEN /\ write' = [write EXCEPT ![n] =
                    Answered(scope, received, "refused",
                             publicRefusal(received).statusCode,
                             publicRefusal(received).body)]
               /\ UNCHANGED <<coord, net, minted>>
          ELSE IF key # NoKey /\ hasIdempotency(coord[n], routeOf(req), key)
          THEN /\ write' = [write EXCEPT ![n] =
                    LET existing == getIdempotency(coord[n], routeOf(req), key)
                    IN IF existing.requestHash # hashIdempotencyRequest(req)
                       THEN Answered(scope, req, "idempotency key reuse conflict",
                                     409,
                                     conflictBody(routeOf(req)))
                       ELSE Answered(scope, req, "replayed",
                                     existing.statusCode, existing.body)]
               /\ UNCHANGED <<coord, net, minted>>
          ELSE IF Cardinality(Peers(n)) < requiredPeerAcks
          THEN /\ write' = [write EXCEPT ![n] =
                    Answered(scope, req, "insufficient peers",
                             503, errorBody("insufficient peers"))]
               /\ UNCHANGED <<coord, net, minted>>
          ELSE
            /\ req.op = "enqueueJob" => minted < scope.maxJobs
            /\ s.st.nextVersion <= scope.maxVersion + 1
            /\ IF r.ok
               THEN /\ coord' = [coord EXCEPT ![n] = s.st]
                    /\ write' = [write EXCEPT ![n] =
                         [phase |-> "replicating", req |-> req, ret |-> r.ret,
                          leaseExpiresAt |->
                            IF req.op = "claimJob" /\ r.ret # NoJob
                            THEN jobOf(r.st, r.ret).leaseExpiresAt ELSE NoTime,
                          checkpoint |-> cp, waiting |-> Peers(n), acked |-> 0,
                          answered |-> {},
                          scope |-> [answers |-> scope.answers,
                                     replies |-> scope.replies]]]
                    /\ net' = net \cup
                         {[kind |-> "push", from |-> n, to |-> p,
                           snapshot |-> s.snapshot] : p \in Peers(n)}
               ELSE /\ coord' = [coord EXCEPT ![n] = restore(r.st, cp)]
                    /\ write' = [write EXCEPT ![n] =
                         Answered(scope, req, "threw", 500, errorBody("threw"))]
                    /\ UNCHANGED net
            /\ minted' = IF req.op = "enqueueJob" THEN minted + 1 ELSE minted
  /\ UNCHANGED <<now, config, lastOp, granted>>

BeginWrite(n) == Write(n, ClusterScope(n))

\* POST /v1/replicate/snapshot at node m: merge, and answer 200 whether or
\* not anything was adopted.
ReceiveSnapshot(m) ==
  \E msg \in net :
    /\ msg.kind = "push" /\ msg.to = m
    /\ coord' = [coord EXCEPT ![m] = mergeSnapshot(coord[m], msg.snapshot).st]
    /\ net' = (net \ {msg}) \cup
                {[kind |-> "response", from |-> m, to |-> msg.from,
                  status |-> 200, ok |-> TRUE]}
    /\ UNCHANGED <<now, config, minted, lastOp, write, granted>>

\* The fetch of a push fails before the peer has seen it: the catch of
\* replicateSnapshotToPeers counts the peer as not acked.
PushFails(m) ==
  \E msg \in net :
    /\ msg.kind = "push" /\ msg.to = m
    /\ net' = (net \ {msg}) \cup
                {[kind |-> "response", from |-> m, to |-> msg.from,
                  status |-> 0, ok |-> FALSE]}
    /\ UNCHANGED <<coord, now, config, minted, lastOp, write, granted>>

\* The answer of a peer is lost on its way: the fetch throws although the
\* peer has merged the snapshot.
ResponseFails(m) ==
  \E msg \in net :
    /\ msg.kind = "response" /\ msg.from = m /\ msg.ok
    /\ net' = (net \ {msg}) \cup {[msg EXCEPT !.ok = FALSE]}
    /\ UNCHANGED <<coord, now, config, minted, lastOp, write, granted>>

\* A response reaches node n; after the last one applyMutationWithQuorum
\* goes on: restore when the acks are too few, otherwise the request is
\* answered with the value of the mutation, and applyIdempotentMutation
\* writes the row of a request that came with a key.  answered is the set
\* of the peers that answered 2xx to the push.
ReceiveResponse(n) ==
  \E msg \in net :
    /\ msg.kind = "response" /\ msg.to = n
    /\ write[n].phase = "replicating"
    /\ LET waiting == write[n].waiting \ {msg.from}
           acked == countAcked(write[n].acked, msg.ok)
           answered == write[n].answered \cup
                         (IF msg.status = 200 THEN {msg.from} ELSE {})
           req == write[n].req
           scope == write[n].scope
       IN IF waiting # {}
          THEN /\ write' = [write EXCEPT ![n].waiting = waiting,
                                         ![n].acked = acked,
                                         ![n].answered = answered]
               /\ UNCHANGED <<coord, granted>>
          ELSE IF acked < requiredPeerAcks
          THEN /\ coord' = [coord EXCEPT ![n] = restore(coord[n], write[n].checkpoint)]
               /\ write' = [write EXCEPT ![n] =
                              Answered(scope, req, "replication target not met",
                                       503,
                                       errorBody("replication target not met"))]
               /\ UNCHANGED granted
          ELSE /\ coord' = [coord EXCEPT ![n] =
                    IF keyOf(req) = NoKey THEN coord[n]
                    ELSE saveIdempotency(coord[n], routeOf(req), keyOf(req),
                                         hashIdempotencyRequest(req), 200,
                                         toResponseBody(write[n].ret))]
               /\ write' = [write EXCEPT ![n] =
                              Answered(scope, req, "ok", 200,
                                       toResponseBody(write[n].ret))]
               /\ granted' =
                    IF req.op = "claimJob" /\ write[n].ret # NoJob
                    THEN granted \cup
                           {[node |-> n, hostId |-> req.hostId,
                             jobId |-> write[n].ret,
                             leaseExpiresAt |-> write[n].leaseExpiresAt]}
                    ELSE granted
    /\ net' = net \ {msg}
    /\ UNCHANGED <<now, config, minted, lastOp>>

\* One fetch of syncFromPeers: GET /v1/state at the peer answers its
\* snapshot, which sweeps the expired leases there, and node m merges it.
SyncFromPeer(m) ==
  \E p \in Peers(m) :
    LET s == snapshot(coord[p], p, now)
    IN /\ coord' = [coord EXCEPT ![p] = s.st,
                                 ![m] = mergeSnapshot(coord[m], s.snapshot).st]
       /\ UNCHANGED <<now, config, minted, lastOp, replication>>

ClusterTick ==
  /\ now < MaxTime
  /\ now' = now + 1
  /\ UNCHANGED <<coord, config, minted, lastOp, replication>>

\* The sweeper interval of a coordinator.
Sweeper(n) ==
  /\ coord' = [coord EXCEPT ![n] = requeueExpiredLeases(coord[n], n, now).st]
  /\ UNCHANGED <<now, config, minted, lastOp, replication>>

NextCluster ==
  \/ ClusterTick
  \/ \E n \in Nodes : BeginWrite(n)
  \/ \E n \in Nodes : ReceiveSnapshot(n)
  \/ \E n \in Nodes : PushFails(n)
  \/ \E n \in Nodes : ReceiveResponse(n)
  \/ \E n \in Nodes : Sweeper(n)

SpecCluster == Init /\ [][NextCluster]_vars

(***************************************************************************)
(* The registry of the gateway.  The gateway fills it from the services it *)
(* polls, asks it for the next endpoint of a service key, and marks the    *)
(* endpoints as failed or well.  An endpoint is its base and the slashes   *)
(* that follow it.                                                         *)
(***************************************************************************)
MaxGatewayTime == 1
MaxCalls == 4
MaxMarked == 1

NoEndpoint == [kind |-> "undefined"]
Endpoint(base, slashes) == [kind |-> "string", base |-> base, slashes |-> slashes]
EmptyEndpoint == Endpoint("", 0)

\* Math.max(1_000, options.unhealthyCooldownMs ?? 10_000), in ticks.
unhealthyCooldownMs == 1

\* endpoint.replace(/\/$/, ""): one slash at the end is taken off.
stripSlash(endpoint) ==
  IF endpoint.slashes > 0 THEN [endpoint EXCEPT !.slashes = @ - 1] ELSE endpoint

\* Boolean(assignment.endpoint): false for undefined and for "".
isGiven(endpoint) == endpoint.kind = "string" /\ endpoint # EmptyEndpoint

\* The order of the strings: by the base, and the shorter first.
BaseRank == [a |-> 1, b |-> 2, c |-> 3]
endpointBefore(e, f) ==
  \/ BaseRank[e.base] < BaseRank[f.base]
  \/ e.base = f.base /\ e.slashes < f.slashes

\* [...new Set(endpoints)].sort()
RECURSIVE sortEndpoints(_)
sortEndpoints(S) ==
  IF S = {} THEN << >>
  ELSE LET first == CHOOSE e \in S : \A f \in S \ {e} : endpointBefore(e, f)
       IN <<first>> \o sortEndpoints(S \ {first})

\* The endpoints of the running assignments of a service.
endpointsOf(service) ==
  sortEndpoints({stripSlash(service.assignments[k].endpoint) :
                   k \in {j \in DOMAIN service.assignments :
                            /\ service.assignments[j].status = "running"
                            /\ isGiven(service.assignments[j].endpoint)}})

\* The map next of updateFromServices: the id and the name of every service
\* that has endpoints, the later service of the list over the earlier.
RECURSIVE nextMap(_, _)
nextMap(services, i) ==
  IF i = 0 THEN << >>
  ELSE LET before == nextMap(services, i - 1)
           endpoints == endpointsOf(services[i])
       IN IF endpoints = << >> THEN before
          ELSE upsert(upsert(before, services[i].id, endpoints),
                      services[i].name, endpoints)

\* updateFromServices: the keys of next replace the states, each keeping its
\* index modulo the new length; the health of endpoints no longer known is
\* dropped.
updateFromServices(registry, services) ==
  LET next == nextMap(services, Len(services))
      states == [key \in DOMAIN next |->
                   [endpoints |-> next[key],
                    index |-> IF key \in DOMAIN registry.states
                              THEN registry.states[key].index % Len(next[key])
                              ELSE 0]]
      knownEndpoints == UNION {{states[key].endpoints[k] :
                                  k \in DOMAIN states[key].endpoints} :
                               key \in DOMAIN states}
  IN [registry EXCEPT
        !.states = states,
        !.endpointHealth =
          [e \in (DOMAIN registry.endpointHealth) \cap knownEndpoints |->
             registry.endpointHealth[e]]]

isEndpointHealthy(registry, t, endpoint) ==
  \/ endpoint \notin DOMAIN registry.endpointHealth
  \/ registry.endpointHealth[endpoint].unhealthyUntil <= t

\* endpoints.filter(isEndpointHealthy)
RECURSIVE filterHealthy(_, _, _)
filterHealthy(registry, t, endpoints) ==
  IF endpoints = << >> THEN << >>
  ELSE (IF isEndpointHealthy(registry, t, Head(endpoints))
        THEN <<Head(endpoints)>> ELSE << >>)
       \o filterHealthy(registry, t, Tail(endpoints))

rotate(input, start) ==
  IF input = << >> THEN << >>
  ELSE LET idx == ((start % Len(input)) + Len(input)) % Len(input)
       IN SubSeq(input, idx + 1, Len(input)) \o SubSeq(input, 1, idx)

nextEndpointsStuck(registry, t, serviceKey, maxAttempts) ==
  IF serviceKey \notin DOMAIN registry.states \/ maxAttempts <= 0
  THEN [registry |-> registry, ret |-> << >>]
  ELSE LET state == registry.states[serviceKey]
           ordered == rotate(state.endpoints, state.index % Len(state.endpoints))
       IN [registry |-> registry,
           ret |-> SubSeq(ordered, 1, Min(maxAttempts, Len(ordered)))]

\* nextEndpoints: the healthy endpoints, or all when none is healthy,
\* rotated to the index of the key, which moves on by one.
nextEndpoints(registry, t, serviceKey, maxAttempts) ==
  IF serviceKey \notin DOMAIN registry.states \/ maxAttempts <= 0
  THEN [registry |-> registry, ret |-> << >>]
  ELSE LET state == registry.states[serviceKey]
           healthy == filterHealthy(registry, t, state.endpoints)
           candidates == IF Len(healthy) > 0 THEN healthy ELSE state.endpoints
           ordered == rotate(candidates, state.index % Len(candidates))
       IN [registry |->
             [registry EXCEPT !.states[serviceKey].index =
                (state.index + 1) % Len(candidates)],
           ret |-> SubSeq(ordered, 1, Min(maxAttempts, Len(ordered)))]

\* nextEndpoint: the first of nextEndpoints(serviceKey, 1), undefined when
\* there is none.
nextEndpoint(registry, t, serviceKey) ==
  LET r == nextEndpoints(registry, t, serviceKey, 1)
  IN [registry |-> r.registry,
      ret |-> IF r.ret = << >> THEN NoEndpoint ELSE r.ret[1]]

markEndpointFailure(registry, t, endpoint) ==
  [registry EXCEPT !.endpointHealth =
     upsert(@, endpoint, [unhealthyUntil |-> t + unhealthyCooldownMs])]

markEndpointSuccess(registry, t, endpoint) ==
  [registry EXCEPT !.endpointHealth = upsert(@, endpoint, [unhealthyUntil |-> 0])]

\* The services the gateway is given.
Running(endpoint) == [status |-> "running", endpoint |-> endpoint]
AssignmentLists ==
  {<<Running(Endpoint("a", 0)), Running(Endpoint("b", 0))>>,
   <<Running(Endpoint("c", 0)), Running(Endpoint("a", 1)),
     Running(Endpoint("b", 0)), Running(Endpoint("a", 0))>>,
   <<[status |-> "failed", endpoint |-> Endpoint("a", 0)],
     Running(NoEndpoint), Running(EmptyEndpoint), Running(Endpoint("b", 1))>>}
ServiceLists ==
  {<<[id |-> "svc_1", name |-> "api", assignments |-> a]>> : a \in AssignmentLists}
  \cup {<<[id |-> "svc_1", name |-> "api",
           assignments |-> <<Running(Endpoint("a", 0)), Running(Endpoint("b", 0))>>],
          [id |-> "svc_2", name |-> "api",
           assignments |-> <<Running(Endpoint("c", 0))>>]>>}
ServiceKeys == {"svc_1", "api", "web"}

coordinators ==
  <<coord, leaseMs, minReplicas, options, peerSet, opened, minted, lastOp, write,
    net, granted, daemon, overlap>>

GatewayTick ==
  /\ now < MaxGatewayTime
  /\ now' = now + 1
  /\ UNCHANGED <<coordinators, gateway>>

\* The services poll of the gateway.
UpdateFromServices ==
  \E services \in ServiceLists :
    /\ gateway' = [updateFromServices(gateway, services) EXCEPT !.served = << >>]
    /\ UNCHANGED <<coordinators, now>>

called ==
  LET RECURSIVE sum(_)
      sum(S) == IF S = {} THEN 0
                ELSE LET key == CHOOSE k \in S : TRUE
                     IN Len(gateway.served[key]) + sum(S \ {key})
  IN sum(DOMAIN gateway.served)

\* A request is routed: the registry is asked for the next endpoint of the
\* key.  served keeps the answer, and whether every endpoint of the key was
\* healthy when it was given.
Route ==
  \E serviceKey \in ServiceKeys :
    LET r == nextEndpoint(gateway, now, serviceKey)
        answer == [endpoint |-> r.ret,
                   healthy |-> \A k \in DOMAIN gateway.states[serviceKey].endpoints :
                                 isEndpointHealthy(gateway, now,
                                   gateway.states[serviceKey].endpoints[k])]
    IN /\ called < MaxCalls
       /\ gateway' =
            IF r.ret = NoEndpoint THEN gateway
            ELSE [r.registry EXCEPT !.served =
                    upsert(@, serviceKey,
                           IF serviceKey \in DOMAIN gateway.served
                           THEN Append(gateway.served[serviceKey], answer)
                           ELSE <<answer>>)]
       /\ UNCHANGED <<coordinators, now>>

listAllEndpoints(registry) ==
  UNION {{registry.states[key].endpoints[k] :
            k \in DOMAIN registry.states[key].endpoints} :
         key \in DOMAIN registry.states}

\* The outcome of a proxied request or of a health probe, for MaxMarked
\* endpoints at a time.
MarkEndpoint ==
  \E endpoint \in listAllEndpoints(gateway) :
    /\ \/ endpoint \in DOMAIN gateway.endpointHealth
       \/ Cardinality(DOMAIN gateway.endpointHealth) < MaxMarked
    /\ \/ gateway' = markEndpointFailure(gateway, now, endpoint)
       \/ gateway' = markEndpointSuccess(gateway, now, endpoint)
    /\ UNCHANGED <<coordinators, now>>

NextGateway ==
  \/ GatewayTick
  \/ UpdateFromServices
  \/ Route
  \/ MarkEndpoint

SpecGateway == Init /\ [][NextGateway]_vars

(***************************************************************************)
(* Leases that run out.  One coordinator holds a host and its job; time    *)
(* passes, the sweeper of the server runs every second, the host sends its *)
(* heartbeats, calls claimJob again and again and completes the job or     *)
(* does not.  Time runs up to MaxLeaseTime and the job is leased           *)
(* MaxLeaseAttempts times at most.                                         *)
(***************************************************************************)
MaxLeaseTime == 3
MaxLeaseAttempts == 3
MaxLeaseJobs == 1
MaxLeaseVersion == 8
LeaseHost == "h1"

RECURSIVE enqueueAll(_, _)
enqueueAll(st, requirements) ==
  IF requirements = << >> THEN st
  ELSE enqueueAll(
         enqueueJob(st, LocalNode, 0, Len(st.jobs) + 1, Head(requirements),
                    NoSubmitter).st,
         Tail(requirements))

\* The states after the host has registered and the jobs were enqueued.
LeaseSetups ==
  {enqueueAll(registerHost(EmptyState, LocalNode, 0, LeaseHost, caps, maxParallel).st,
              requirements) :
     caps \in HostCapabilityInputs(LeaseHost),
     maxParallel \in MaxParallelInputs(LeaseHost),
     requirements \in UNION {[1..k -> RequirementInputs] : k \in 1..MaxLeaseJobs}}

InitLease ==
  /\ \E setup \in LeaseSetups :
       /\ coord = [n \in Nodes |-> IF n = LocalNode THEN setup ELSE EmptyState]
       /\ minted = Len(setup.jobs)
  /\ now = 0
  /\ leaseMs \in 1..MaxTime
  /\ minReplicas = Unset
  /\ options = DefaultOptions
  /\ Serving
  /\ opened = [n \in Nodes |-> [count |-> 1, jobs |-> << >>, at |-> 0]]
  /\ lastOp = Op("enqueueJob", LocalNode, NoHost, minted, TRUE, minted)
  /\ write = [n \in Nodes |-> NoWrite]
  /\ net = {}
  /\ granted = {}

TimePasses ==
  /\ now < MaxLeaseTime
  /\ now' = now + 1
  /\ UNCHANGED <<coord, config, minted, lastOp, replication>>

totalAttempts(st) ==
  LET RECURSIVE sum(_)
      sum(i) == IF i = 0 THEN 0 ELSE st.jobs[i].attempts + sum(i - 1)
  IN sum(Len(st.jobs))

\* The worker loop of the host daemon calls claimJob.
HostClaims ==
  LET r == claimJob(local, LocalNode, now, leaseMs, LeaseHost)
  IN /\ totalAttempts(r.st) <= MaxLeaseAttempts
     /\ coord' = [coord EXCEPT ![LocalNode] = r.st]
     /\ lastOp' = IF r.st = local THEN lastOp
                   ELSE Op("claimJob", LocalNode, LeaseHost, NoJob, r.ok, r.ret)
     /\ UNCHANGED <<now, config, minted, replication>>

\* The worker loop of the host daemon reports the end of a job.
HostCompletes ==
  \E jobId \in 1..minted, success \in BOOLEAN :
    LET r == completeJob(local, LocalNode, now, jobId, LeaseHost, success)
    IN /\ r.ok
       /\ coord' = [coord EXCEPT ![LocalNode] = r.st]
       /\ lastOp' = Op("completeJob", LocalNode, LeaseHost, jobId, r.ok, r.ret)
       /\ UNCHANGED <<now, config, minted, replication>>

\* The heartbeat interval of the host daemon: it sends the activeLeases of
\* the host record it keeps, which counts the jobs it claimed and has not
\* seen completed.
HostBeats ==
  \E activeLeases \in 0..MaxLeaseJobs :
    LET r == heartbeat(local, LocalNode, now, LeaseHost, activeLeases)
    IN /\ r.st.nextVersion <= MaxLeaseVersion + 1
       /\ coord' = [coord EXCEPT ![LocalNode] = r.st]
       /\ lastOp' = Op("heartbeat", LocalNode, LeaseHost, NoJob, r.ok, r.ret)
       /\ UNCHANGED <<now, config, minted, replication>>

NextLease ==
  \/ TimePasses
  \/ Sweeper(LocalNode)
  \/ HostBeats
  \/ HostClaims
  \/ HostCompletes

\* The interval of the sweeper fires again and again, and the host keeps
\* calling claimJob.
SpecLease ==
  /\ InitLease /\ [][NextLease]_vars
  /\ WF_vars(Sweeper(LocalNode))
  /\ WF_vars(HostClaims)

(***************************************************************************)
(* The host daemon: it registers, then runs a heartbeat interval and a     *)
(* worker loop side by side.  The heartbeat posts the activeLeases of the  *)
(* host record the daemon keeps and replaces that record with the one in   *)
(* the answer; the worker claims a job, counts it in the record, runs it,  *)
(* reports its end and counts it out when the report was accepted.  A      *)
(* request that fails sends the worker to sleep and round the loop again.  *)
(* One coordinator, one daemon; a client enqueues the jobs.                *)
(***************************************************************************)
MaxDaemonJobs == 2
MaxDaemonVersion == 9

DaemonRegisters ==
  /\ daemon.phase = "start"
  /\ \E capabilities \in HostCapabilityInputs(LeaseHost),
        maxParallel \in MaxParallelInputs(LeaseHost) :
       LET r == registerHost(local, LocalNode, now, LeaseHost, capabilities, maxParallel)
       IN /\ coord' = [coord EXCEPT ![LocalNode] = r.st]
          /\ lastOp' = Op("registerHost", LocalNode, LeaseHost, NoJob, r.ok, r.ret)
          /\ daemon' = [daemon EXCEPT !.phase = "polling",
                                      !.activeLeases = r.st.hosts[LeaseHost].activeLeases]
  /\ UNCHANGED <<now, leaseMs, minReplicas, options, peerSet, opened, gateway,
                 overlap, minted, replication>>

ClientEnqueues ==
  /\ minted < MaxDaemonJobs
  /\ \E requirement \in RequirementInputs :
       LET r == enqueueJob(local, LocalNode, now, minted + 1, requirement, NoSubmitter)
       IN /\ r.st.nextVersion <= MaxDaemonVersion + 1
          /\ coord' = [coord EXCEPT ![LocalNode] = r.st]
          /\ lastOp' = Op("enqueueJob", LocalNode, NoHost, minted + 1, r.ok, r.ret)
  /\ minted' = minted + 1
  /\ UNCHANGED <<now, config, replication>>

\* The worker loop: the claim and, when a job came back, the count.
DaemonClaims ==
  /\ daemon.phase = "polling"
  /\ LET r == claimJob(local, LocalNode, now, leaseMs, LeaseHost)
     IN /\ r.st.nextVersion <= MaxDaemonVersion + 1
        /\ coord' = [coord EXCEPT ![LocalNode] = r.st]
        /\ lastOp' = IF r.st = local THEN lastOp
                      ELSE Op("claimJob", LocalNode, LeaseHost, NoJob, r.ok, r.ret)
        /\ daemon' = IF r.ret = NoJob THEN daemon
                     ELSE [daemon EXCEPT !.phase = "running",
                                         !.job = r.ret,
                                         !.activeLeases = @ + 1]
  /\ UNCHANGED <<now, leaseMs, minReplicas, options, peerSet, opened, gateway,
                 overlap, minted, replication>>

\* The worker loop: the report of the end of the job.  An accepted report
\* is counted out; a rejected one throws past the count.
DaemonCompletes ==
  /\ daemon.phase = "running"
  /\ \E success \in BOOLEAN :
       LET r == completeJob(local, LocalNode, now, daemon.job, LeaseHost, success)
       IN /\ r.st.nextVersion <= MaxDaemonVersion + 1
          /\ coord' = [coord EXCEPT ![LocalNode] = r.st]
          /\ lastOp' = IF r.st = local THEN lastOp
                        ELSE Op("completeJob", LocalNode, LeaseHost, daemon.job, r.ok, r.ret)
          /\ daemon' = [daemon EXCEPT
                          !.phase = "polling",
                          !.job = NoJob,
                          !.activeLeases = IF r.ok /\ @ > 0 THEN @ - 1 ELSE @]
  /\ UNCHANGED <<now, leaseMs, minReplicas, options, peerSet, opened, gateway,
                 overlap, minted, replication>>

\* The report does not reach the coordinator.
DaemonRequestFails ==
  /\ daemon.phase = "running"
  /\ daemon' = [daemon EXCEPT !.phase = "polling", !.job = NoJob]
  /\ UNCHANGED <<coord, now, leaseMs, minReplicas, options, peerSet, opened,
                 gateway, overlap, minted, lastOp, replication>>

\* The heartbeat interval fires: the coordinator takes the count.
DaemonBeats ==
  /\ daemon.phase # "start"
  /\ daemon.beat = NoLeases
  /\ LET r == heartbeat(local, LocalNode, now, LeaseHost, daemon.activeLeases)
     IN /\ r.st.nextVersion <= MaxDaemonVersion + 1
        /\ coord' = [coord EXCEPT ![LocalNode] = r.st]
        /\ lastOp' = Op("heartbeat", LocalNode, LeaseHost, NoJob, r.ok, r.ret)
        /\ daemon' = [daemon EXCEPT !.beat = r.st.hosts[LeaseHost].activeLeases]
  /\ UNCHANGED <<now, leaseMs, minReplicas, options, peerSet, opened, gateway,
                 overlap, minted, replication>>

\* The answer of the heartbeat arrives: host = next.host.
DaemonBeatAnswered ==
  /\ daemon.beat # NoLeases
  /\ daemon' = [daemon EXCEPT !.activeLeases = daemon.beat, !.beat = NoLeases]
  /\ UNCHANGED <<coord, now, leaseMs, minReplicas, options, peerSet, opened,
                 gateway, overlap, minted, lastOp, replication>>

NextDaemon ==
  \/ TimePasses
  \/ Sweeper(LocalNode)
  \/ ClientEnqueues
  \/ DaemonRegisters
  \/ DaemonClaims
  \/ DaemonCompletes
  \/ DaemonRequestFails
  \/ DaemonBeats
  \/ DaemonBeatAnswered

SpecDaemon == Init /\ [][NextDaemon]_vars

(***************************************************************************)
(* The quorum write observed: coordinators started with one, two or three  *)
(* minReplicas, clients of node-a that enqueue jobs with and without an    *)
(* idempotency key and deploy a service, node-b as the peer that receives  *)
(* the snapshots, answers of the peer that get lost, and the answer of     *)
(* every request kept.                                                     *)
(***************************************************************************)
MaxQuorumVersion == 4
MaxQuorumJobs == 1

QuorumMinReplicas == {Number(1), Unset, Number(3)}

QuorumRequestsAt(n) ==
  RequestsAt(n, coord[n], 1..(minted + 1))
  \cup {[op |-> "enqueueJob", requirement |-> q, key |-> "k1"] :
          q \in RequirementInputs}
  \cup {req \in ServiceRequests :
          /\ req.op = "deployService"
          /\ req.serviceId = "s1" /\ req.replicas = NoReplicas
          /\ req.requiredCapabilities = << >>}

QuorumScope(n) ==
  [requests |-> QuorumRequestsAt(n),
   maxVersion |-> MaxQuorumVersion,
   maxJobs |-> MaxQuorumJobs,
   answers |-> TRUE,
   replies |-> FALSE]

InitQuorum ==
  /\ Started /\ minReplicas \in QuorumMinReplicas
  /\ options = DefaultOptions /\ Serving

QuorumWrite(n) == Write(n, QuorumScope(n))

NextQuorum ==
  \/ ClusterTick
  \/ QuorumWrite(LocalNode)
  \/ \E n \in Nodes : ReceiveSnapshot(n)
  \/ \E n \in Nodes : PushFails(n)
  \/ \E n \in Nodes : ResponseFails(n)
  \/ \E n \in Nodes : ReceiveResponse(n)
  \/ \E n \in Nodes : Sweeper(n)
  \/ \E n \in Nodes : SyncFromPeer(n)

SpecQuorum == InitQuorum /\ [][NextQuorum]_vars

(***************************************************************************)
(* A job from its enqueue to its end on two coordinators: host h1          *)
(* registers at node-a, a client enqueues a job there, h1 claims it and    *)
(* reports its end; every write is pushed to node-b, the sweepers of both  *)
(* coordinators run, and each coordinator syncs from the other.            *)
(***************************************************************************)
MaxTerminalVersion == 6
MaxTerminalJobs == 1

TerminalScope(n) ==
  [requests |-> {req \in RequestsAt(n, coord[n], 1..minted) :
                   req.op = "enqueueJob" => req.requirement = << >>},
   maxVersion |-> MaxTerminalVersion,
   maxJobs |-> MaxTerminalJobs,
   answers |-> FALSE,
   replies |-> FALSE]

TerminalWrite(n) == Write(n, TerminalScope(n))

NextTerminal ==
  \/ ClusterTick
  \/ TerminalWrite(LocalNode)
  \/ \E n \in Nodes : ReceiveSnapshot(n)
  \/ \E n \in Nodes : PushFails(n)
  \/ \E n \in Nodes : ReceiveResponse(n)
  \/ \E n \in Nodes : Sweeper(n)
  \/ \E n \in Nodes : SyncFromPeer(n)

SpecTerminal == Init /\ [][NextTerminal]_vars

(***************************************************************************)
(* The idempotency ledger observed: clients of node-a that send their      *)
(* requests with an x-idempotency-key, to coordinators started with one,   *)
(* two (the default) or three minReplicas.  They enqueue jobs, with two     *)
(* bodies, under the keys of LedgerKeys and ask to complete job 1 for a     *)
(* host the coordinator does not know, which throws; the request and the   *)
(* answer of every request are kept.                                       *)
(***************************************************************************)
MaxLedgerVersion == 4
MaxLedgerJobs == 2

LedgerKeys == {"k1", "k2"}

LedgerMinReplicas == {Number(1), Unset, Number(3)}

LedgerRequestsAt(n) ==
  {[op |-> "enqueueJob", requirement |-> q, key |-> k] :
     q \in RequirementInputs, k \in LedgerKeys}
  \cup {[op |-> "completeJob", jobId |-> 1, hostId |-> "h1", success |-> TRUE,
         key |-> "k1"]}

LedgerScope(n) ==
  [requests |-> LedgerRequestsAt(n),
   maxVersion |-> MaxLedgerVersion,
   maxJobs |-> MaxLedgerJobs,
   answers |-> TRUE,
   replies |-> TRUE]

InitLedger ==
  /\ Started /\ minReplicas \in LedgerMinReplicas
  /\ options = DefaultOptions /\ Serving

LedgerWrite(n) == Write(n, LedgerScope(n))

NextLedger ==
  \/ ClusterTick
  \/ LedgerWrite(LocalNode)
  \/ \E n \in Nodes : ReceiveSnapshot(n)
  \/ \E n \in Nodes : PushFails(n)
  \/ \E n \in Nodes : ResponseFails(n)
  \/ \E n \in Nodes : ReceiveResponse(n)

SpecLedger == InitLedger /\ [][NextLedger]_vars

(***************************************************************************)
(* Requests side by side: the HTTP server of node-a takes the next request *)
(* while the handler of an earlier one awaits the answers of the peers.    *)
(* Each request is a POST /v1/jobs with the x-idempotency-key k1; its      *)
(* handler runs up to the await of replicateSnapshotToPeers, the peer      *)
(* merges the push or the push is lost, and the handler goes on after the  *)
(* await.  What was answered stays in the slot of the request.             *)
(***************************************************************************)
MaxOverlapVersion == 4

OverlapRequests ==
  {[op |-> "enqueueJob", requirement |-> q, key |-> "k1"] : q \in RequirementInputs}

\* The request is over: whether its mutation ran, and what sendJson or
\* sendError answered.
Replied(req, executed, statusCode, body) ==
  [phase |-> "answered", req |-> req, executed |-> executed,
   statusCode |-> statusCode, body |-> body]

\* applyIdempotentMutation and applyMutationWithQuorum up to the await.
HandlerBegins(k) ==
  /\ overlap[k].phase = "idle"
  /\ \E req \in OverlapRequests :
       LET key == keyOf(req)
           cp == checkpoint(local, LocalNode)
           r == mutate(local, LocalNode, now, leaseMs, req, minted + 1)
           s == snapshot(r.st, LocalNode, now)
       IN IF key # NoKey /\ hasIdempotency(local, routeOf(req), key)
          THEN /\ overlap' = [overlap EXCEPT ![k] =
                    LET existing == getIdempotency(local, routeOf(req), key)
                    IN IF existing.requestHash # hashIdempotencyRequest(req)
                       THEN Replied(req, FALSE, 409, conflictBody(routeOf(req)))
                       ELSE Replied(req, FALSE, existing.statusCode, existing.body)]
               /\ UNCHANGED <<coord, minted>>
          ELSE IF Cardinality(Peers(LocalNode)) < requiredPeerAcks
          THEN /\ overlap' = [overlap EXCEPT ![k] =
                    Replied(req, FALSE, 503, errorBody("insufficient peers"))]
               /\ UNCHANGED <<coord, minted>>
          ELSE /\ s.st.nextVersion <= MaxOverlapVersion + 1
               /\ coord' = [coord EXCEPT ![LocalNode] = s.st]
               /\ minted' = minted + 1
               /\ overlap' = [overlap EXCEPT ![k] =
                    [phase |-> "replicating", req |-> req, ret |-> r.ret,
                     checkpoint |-> cp, snapshot |-> s.snapshot]]
  /\ UNCHANGED <<now, leaseMs, minReplicas, options, peerSet, opened, gateway,
                 daemon, lastOp, replication>>

\* The peer of node-a merges the push of the request and answers 200.
PeerMerges(k) ==
  /\ overlap[k].phase = "replicating"
  /\ \E p \in Peers(LocalNode) :
       coord' = [coord EXCEPT ![p] = mergeSnapshot(coord[p], overlap[k].snapshot).st]
  /\ overlap' = [overlap EXCEPT ![k].phase = "acked"]
  /\ UNCHANGED <<now, leaseMs, minReplicas, options, peerSet, opened, gateway,
                 daemon, minted, lastOp, replication>>

\* The push of the request does not reach the peer.
PushLost(k) ==
  /\ overlap[k].phase = "replicating"
  /\ overlap' = [overlap EXCEPT ![k].phase = "unacked"]
  /\ UNCHANGED <<coord, now, leaseMs, minReplicas, options, peerSet, opened,
                 gateway, daemon, minted, lastOp, replication>>

\* After the await: the rollback when the acks are too few, otherwise the
\* row of the key and the answer.
HandlerResumes(k) ==
  /\ overlap[k].phase \in {"acked", "unacked"}
  /\ LET req == overlap[k].req
         acked == countAcked(0, overlap[k].phase = "acked")
     IN IF acked < requiredPeerAcks
        THEN /\ coord' = [coord EXCEPT ![LocalNode] =
                            restore(local, overlap[k].checkpoint)]
             /\ overlap' = [overlap EXCEPT ![k] =
                  Replied(req, TRUE, 503, errorBody("replication target not met"))]
        ELSE /\ coord' = [coord EXCEPT ![LocalNode] =
                  IF keyOf(req) = NoKey THEN local
                  ELSE saveIdempotency(local, routeOf(req), keyOf(req),
                                       hashIdempotencyRequest(req), 200,
                                       toResponseBody(overlap[k].ret))]
             /\ overlap' = [overlap EXCEPT ![k] =
                  Replied(req, TRUE, 200, toResponseBody(overlap[k].ret))]
  /\ UNCHANGED <<now, leaseMs, minReplicas, options, peerSet, opened, gateway,
                 daemon, minted, lastOp, replication>>

NextOverlap ==
  \/ ClusterTick
  \/ \E k \in Slots : HandlerBegins(k)
  \/ \E k \in Slots : PeerMerges(k)
  \/ \E k \in Slots : PushLost(k)
  \/ \E k \in Slots : HandlerResumes(k)

SpecOverlap == Init /\ [][NextOverlap]_vars

(***************************************************************************)
(* The public API observed: node-a is started with two API keys K1 and K2, *)
(* each with no label, an empty one, or one of two labels, or without any  *)
(* key; clients submit jobs and fetch them with K1, K2 and an unknown key, *)
(* and the request and the answer of every request are kept.               *)
(***************************************************************************)
MaxPublicVersion == 2
MaxPublicJobs == 2

LabelInputs == {NoLabel, "", "site", "web"}
ApiKeyInputs == {"K1", "K2", "K3"}

PublicOptions ==
  {DefaultOptions}
  \cup {[DefaultOptions EXCEPT !.publicApiKeys =
          <<[key |-> "K1", label |-> l1, allowedCapabilities |-> << >>],
            [key |-> "K2", label |-> l2, allowedCapabilities |-> <<"shell">>]>>] :
          l1 \in LabelInputs, l2 \in LabelInputs}

PublicRequests ==
  {[op |-> "publicEnqueueJob", apiKey |-> k, requirement |-> q] :
     k \in ApiKeyInputs, q \in {NoCapabilities, <<"shell">>}}

PublicScope(n) ==
  [requests |-> PublicRequests,
   maxVersion |-> MaxPublicVersion,
   maxJobs |-> MaxPublicJobs,
   answers |-> TRUE,
   replies |-> TRUE]

InitPublic ==
  Started /\ minReplicas = Unset /\ options \in PublicOptions /\ Serving

PublicWrite(n) == Write(n, PublicScope(n))

\* GET /v1/public/jobs/:id at node n.
GetPublicJob(n) ==
  /\ write[n].phase = "idle"
  /\ \E k \in ApiKeyInputs, jobId \in 1..(minted + 1) :
       LET req == [op |-> "publicGetJob", apiKey |-> k, jobId |-> jobId]
           answer == publicGetJob(coord[n], req)
       IN write' = [write EXCEPT ![n] =
            Answered(PublicScope(n), req, "read", answer.statusCode, answer.body)]
  /\ UNCHANGED <<coord, now, config, minted, lastOp, net, granted>>

NextPublic ==
  \/ PublicWrite(LocalNode)
  \/ GetPublicJob(LocalNode)
  \/ \E n \in Nodes : ReceiveSnapshot(n)
  \/ \E n \in Nodes : PushFails(n)
  \/ \E n \in Nodes : ReceiveResponse(n)

SpecPublic == InitPublic /\ [][NextPublic]_vars

(***************************************************************************)
(* The peer network of one coordinator: it is started with any public URL  *)
(* and any seeds, is asked to join any URL, and reads any answer to the     *)
(* GET /v1/network/peers of its discovery.                                  *)
(***************************************************************************)
MaxSeeds == 1
MaxPayloadPeers == 1
UrlPaths == {<< >>, <<"">>, <<"x", "">>, <<"x", "", "">>}
UrlInputs ==
  {Blank, Unparsable, Url("b", << >>)} \cup {Url("a", path) : path \in UrlPaths}
SeedInputs == UNION {[1..k -> UrlInputs] : k \in 0..MaxSeeds}
PayloadInputs ==
  [peers : {s \in SUBSET UrlInputs : Cardinality(s) <= MaxPayloadPeers},
   self : UrlInputs \cup {NoUrl}]

NetworkOptions ==
  {[DefaultOptions EXCEPT !.publicUrl = u, !.peerUrls = seeds] :
     u \in UrlInputs \cup {NoUrl}, seeds \in SeedInputs}

NetworkScope == [answers |-> TRUE, replies |-> TRUE]

InitNetwork ==
  Started /\ minReplicas = Unset /\ options \in NetworkOptions /\ Serving

\* POST /v1/network/join.
Join(n) ==
  /\ write[n].phase = "idle"
  /\ \E url \in UrlInputs \cup {NoUrl} :
       LET req == [op |-> "join", url |-> url]
           candidate == normalizeBaseUrl(url)
           peers == IF candidate # selfPublicUrl
                    THEN peerSet[n] \cup {candidate} ELSE peerSet[n]
       IN IF candidate = NoUrl
          THEN /\ write' = [write EXCEPT ![n] =
                    Answered(NetworkScope, req, "refused", 400,
                             errorBody("url is required"))]
               /\ UNCHANGED peerSet
          ELSE /\ peerSet' = [peerSet EXCEPT ![n] = peers]
               /\ write' = [write EXCEPT ![n] =
                    Answered(NetworkScope, req, "joined", 200,
                             [ok |-> TRUE, nodeId |-> n, self |-> selfPublicUrl,
                              peers |-> peers])]
  /\ UNCHANGED <<coord, now, leaseMs, minReplicas, options, opened, minted,
                 lastOp, net, granted, gateway, daemon, overlap>>

\* GET /v1/network/peers.
GetPeers(n) ==
  /\ write[n].phase = "idle"
  /\ write' = [write EXCEPT ![n] =
       Answered(NetworkScope, [op |-> "peers"], "read", 200,
                [nodeId |-> n, self |-> selfPublicUrl, peers |-> peerSet[n]])]
  /\ UNCHANGED <<coord, now, config, minted, lastOp, net, granted>>

\* discoverPeers, for one seed peer whose answer is payload.
DiscoverPeers(n) ==
  /\ peerSet[n] # {}
  /\ \E payload \in PayloadInputs :
       LET candidates == payload.peers
             \cup {IF payload.self = NoUrl THEN Blank ELSE payload.self}
           normalized == {normalizeBaseUrl(c) : c \in candidates}
       IN peerSet' = [peerSet EXCEPT ![n] =
            peerSet[n] \cup (normalized \ {NoUrl, selfPublicUrl})]
  /\ UNCHANGED <<coord, now, leaseMs, minReplicas, options, opened, minted,
                 lastOp, write, net, granted, gateway, daemon, overlap>>

NextNetwork ==
  \/ Join(LocalNode)
  \/ GetPeers(LocalNode)
  \/ DiscoverPeers(LocalNode)

SpecNetwork == InitNetwork /\ [][NextNetwork]_vars

(***************************************************************************)
(* The replication policy on its own: the functions normalizeMinReplicas,  *)
(* requiredPeerReplications and assertPeerCapacity applied to a minReplicas *)
(* that is unset, not finite, or any multiple of one half from -1 up to    *)
(* MaxMinReplicas and a half, and to up to MaxPeerCount peers.             *)
(***************************************************************************)
MaxMinReplicas == 5
MaxPeerCount == 3

PolicyInputs ==
  {Unset} \cup NotFinite
    \cup {Halves(h) : h \in (0 - 2)..(2 * MaxMinReplicas + 1)}

InitPolicy ==
  /\ Started /\ minReplicas \in PolicyInputs
  /\ options = DefaultOptions /\ Serving

Computed(name, ok, ret) ==
  /\ lastOp' = Op(name, LocalNode, NoHost, NoJob, ok, ret)
  /\ UNCHANGED <<coord, now, config, minted, replication>>

NormalizeMinReplicas ==
  Computed("normalizeMinReplicas", TRUE, normalizeMinReplicas(minReplicas))

RequiredPeerReplications ==
  Computed("requiredPeerReplications", TRUE, requiredPeerReplications(minReplicas))

AssertPeerCapacity ==
  \E peerCount \in 0..MaxPeerCount :
    Computed("assertPeerCapacity",
             assertPeerCapacity(minReplicas, peerCount).ok, peerCount)

NextPolicy ==
  \/ NormalizeMinReplicas
  \/ RequiredPeerReplications
  \/ AssertPeerCapacity

SpecPolicy == InitPolicy /\ [][NextPolicy]_vars

(***************************************************************************)
(* Vocabulary of the properties.                                           *)
(***************************************************************************)
\* The lease of the job has run out at time t.
Expired(job, t) ==
  job.status = "leased" /\ job.leaseExpiresAt # NoTime /\ job.leaseExpiresAt <= t

\* The job holds a lease that has not run out at time t.
HeldAt(job, t) == job.status = "leased" /\ ~Expired(job, t)

\* The job is queued once the expired leases of time t are swept.
QueuedAt(job, t) == job.status = "queued" \/ Expired(job, t)

\* The indices of the jobs leased to the host.
LeasedTo(st, hostId) ==
  {i \in DOMAIN st.jobs :
     st.jobs[i].status = "leased" /\ st.jobs[i].assignedHostId = hostId}

\* The step is a claimJob that returned a job.
ClaimStep == lastOp' # lastOp /\ lastOp'.op = "claimJob" /\ lastOp'.ret # NoJob

(***************************************************************************)
(* C1.  On one coordinator claimJob leases only a job that is queued when  *)
(* it is leased: queued before the call, or leased with a lease that has   *)
(* run out and is swept by the call.  A job that some host holds with an   *)
(* unexpired lease is never returned by a claimJob.                        *)
(***************************************************************************)
C1_ClaimLeasesOnlyQueued ==
  [][ClaimStep =>
       /\ hasJob(local, lastOp'.ret)
       /\ QueuedAt(jobOf(local, lastOp'.ret), now)
       /\ ~HeldAt(jobOf(local, lastOp'.ret), now)
       /\ jobOf(coord'[LocalNode], lastOp'.ret).assignedHostId = lastOp'.hostId]_vars

\* h1 holds an unexpired lease of a job that h2 is capable of and has room
\* for, and the claimJob of h2 returns no job.
W_C1 ==
  /\ hasHost(local, "h1") /\ hasHost(local, "h2")
  /\ local.hosts["h2"].activeLeases < local.hosts["h2"].maxParallel
  /\ \E i \in DOMAIN local.jobs :
        /\ HeldAt(local.jobs[i], now)
        /\ local.jobs[i].assignedHostId = "h1"
        /\ hasCapabilities(local.hosts["h2"].capabilities,
                           local.jobs[i].requiredCapabilities)
  /\ claimJob(local, LocalNode, now, leaseMs, "h2").ret = NoJob

(***************************************************************************)
(* C2.  As claimed: across the cluster there are never two claim requests  *)
(* for the same job, by two different hosts at two coordinators, that both *)
(* commit while the other's lease is still unexpired.                      *)
(***************************************************************************)
Conflicting(g1, g2) ==
  g1.jobId = g2.jobId /\ g1.node # g2.node /\ g1.hostId # g2.hostId

C2_AtMostOneConcurrentExecution ==
  \A g1, g2 \in granted :
    Conflicting(g1, g2) => ~(g1.leaseExpiresAt > now /\ g2.leaseExpiresAt > now)

(***************************************************************************)
(* C2, amended.  A coordinator leases only a job that its own state, made  *)
(* of its own writes and of the records it adopted from its peers'         *)
(* snapshots, holds as queued or as leased with a lease that has run out:  *)
(* a job whose unexpired lease the coordinator holds is never leased       *)
(* again there.  Two coordinators that have not adopted each other's lease *)
(* may both commit a claim of the same job.                                *)
(***************************************************************************)
C2_EveryClaimRespectsKnownLease ==
  \A n \in Nodes :
    \A hostId \in DOMAIN coord[n].hosts :
      LET r == claimJob(coord[n], n, now, leaseMs, hostId)
      IN r.ret # NoJob =>
           /\ QueuedAt(jobOf(coord[n], r.ret), now)
           /\ ~HeldAt(jobOf(coord[n], r.ret), now)

ClusterClaimStep(n) ==
  /\ write[n].phase = "idle" /\ write'[n].phase = "replicating"
  /\ write'[n].req.op = "claimJob" /\ write'[n].ret # NoJob

C2_ClaimStep ==
  \A n \in Nodes :
    ClusterClaimStep(n) =>
      /\ hasJob(coord[n], write'[n].ret)
      /\ QueuedAt(jobOf(coord[n], write'[n].ret), now)
      /\ ~HeldAt(jobOf(coord[n], write'[n].ret), now)
      /\ jobOf(coord'[n], write'[n].ret).assignedHostId = write'[n].req.hostId
      /\ write'[n].leaseExpiresAt = now + leaseMs

C2_ClaimRespectsKnownLease ==
  [](C2_EveryClaimRespectsKnownLease) /\ [][C2_ClaimStep]_vars

\* A coordinator has adopted the lease that its peer granted and committed;
\* its own host is known, capable and idle, and its claimJob returns no job.
W_C2 ==
  \E n \in Nodes, g \in granted :
    /\ g.node # n
    /\ hasJob(coord[n], g.jobId)
    /\ HeldAt(jobOf(coord[n], g.jobId), now)
    /\ jobOf(coord[n], g.jobId).assignedHostId = g.hostId
    /\ jobOf(coord[n], g.jobId).updatedBy = g.node
    /\ \E hostId \in DOMAIN coord[n].hosts :
         /\ hostId # g.hostId
         /\ CoordinatorOf(hostId) = n
         /\ coord[n].hosts[hostId].activeLeases < coord[n].hosts[hostId].maxParallel
         /\ jobOf(coord[n], g.jobId).requiredCapabilities \subseteq
              coord[n].hosts[hostId].capabilities
         /\ claimJob(coord[n], n, now, leaseMs, hostId).ret = NoJob

(***************************************************************************)
(* C3.  completeJob succeeds only if the host is known, the job is known,  *)
(* the job is assigned to that host and is leased; in every other case it  *)
(* throws and changes nothing.  A job that is completed or failed keeps    *)
(* the assignedHostId of the host that reported it.                        *)
(***************************************************************************)
MayComplete(st, jobId, hostId) ==
  /\ hasHost(st, hostId)
  /\ hasJob(st, jobId)
  /\ jobOf(st, jobId).assignedHostId = hostId
  /\ jobOf(st, jobId).status = "leased"

IsFinished(job) == job.status \in {"completed", "failed"}

C3_EveryCallDecided ==
  \A jobId \in 1..(minted + 1), hostId \in HostIds, success \in BOOLEAN :
    LET r == completeJob(local, LocalNode, now, jobId, hostId, success)
    IN /\ r.ok <=> MayComplete(local, jobId, hostId)
       /\ ~r.ok => r.st = local
       /\ r.ok => /\ jobOf(r.st, jobId).status =
                        (IF success THEN "completed" ELSE "failed")
                   /\ jobOf(r.st, jobId).assignedHostId = hostId

C3_CompleteStep ==
  /\ (lastOp' # lastOp /\ lastOp'.op = "completeJob") =>
        /\ lastOp'.ok
        /\ MayComplete(local, lastOp'.jobId, lastOp'.hostId)
        /\ IsFinished(jobOf(coord'[LocalNode], lastOp'.jobId))
        /\ jobOf(coord'[LocalNode], lastOp'.jobId).assignedHostId = lastOp'.hostId
  /\ \A i \in DOMAIN local.jobs :
        IsFinished(local.jobs[i]) =>
          /\ i \in DOMAIN coord'[LocalNode].jobs
          /\ coord'[LocalNode].jobs[i].assignedHostId = local.jobs[i].assignedHostId

C3_CompleteOnlyByAssignedHost ==
  [](C3_EveryCallDecided) /\ [][C3_CompleteStep]_vars

\* A host has completed its job while another host is registered; a second
\* completion by the same host and a completion by the other host both throw.
W_C3 ==
  /\ lastOp.op = "completeJob" /\ lastOp.ok
  /\ IsFinished(jobOf(local, lastOp.jobId))
  /\ \E other \in HostIds \ {lastOp.hostId} : hasHost(local, other)
  /\ \A hostId \in HostIds :
        ~completeJob(local, LocalNode, now, lastOp.jobId, hostId, TRUE).ok

(***************************************************************************)
(* C4.  A job has leaseExpiresAt set if and only if it is leased, and a    *)
(* leased job has assignedHostId set.                                      *)
(***************************************************************************)
C4_LeaseFieldsFollowStatus ==
  \A i \in DOMAIN local.jobs :
    /\ (local.jobs[i].leaseExpiresAt # NoTime) <=> (local.jobs[i].status = "leased")
    /\ local.jobs[i].status = "leased" => local.jobs[i].assignedHostId # NoHost

\* A job that was leased is queued again, requeued by the sweep of a
\* claimJob that then threw for its unknown host.
W_C4 ==
  /\ lastOp.op = "claimJob" /\ ~lastOp.ok
  /\ \E i \in DOMAIN local.jobs :
        local.jobs[i].status = "queued" /\ local.jobs[i].attempts >= 1

(***************************************************************************)
(* C5.  After every completed state operation each host's activeLeases is  *)
(* the number of jobs that are leased and assigned to it.                  *)
(***************************************************************************)
C5_ActiveLeasesCountsLeasedJobs ==
  \A h \in DOMAIN local.hosts :
    local.hosts[h].activeLeases = Cardinality(LeasedTo(local, h))

(***************************************************************************)
(* C6.  After every completed state operation every host has              *)
(* 0 <= activeLeases <= maxParallel.                                       *)
(***************************************************************************)
C6_ActiveLeasesWithinCapacity ==
  \A h \in DOMAIN local.hosts :
    /\ 0 <= local.hosts[h].activeLeases
    /\ local.hosts[h].activeLeases <= local.hosts[h].maxParallel

(***************************************************************************)
(* C7.  The number of jobs leased to a host at the same time never exceeds *)
(* the host's maxParallel.                                                 *)
(***************************************************************************)
C7_LeasedJobsWithinCapacity ==
  \A h \in DOMAIN local.hosts :
    Cardinality(LeasedTo(local, h)) <= local.hosts[h].maxParallel

(***************************************************************************)
(* C8.  The job that claimJob leases is, among the jobs that are queued    *)
(* (once the expired leases are swept) and whose required capabilities the *)
(* host has, one with the earliest createdAt; claimJob returns no job only *)
(* if there is no such job or the host is at capacity.                     *)
(***************************************************************************)
Eligible(st, hostId, t) ==
  {i \in DOMAIN st.jobs :
     /\ QueuedAt(st.jobs[i], t)
     /\ st.jobs[i].requiredCapabilities \subseteq st.hosts[hostId].capabilities}

C8_NullOnlyWithoutCandidate ==
  \A hostId \in DOMAIN local.hosts :
    LET r == claimJob(local, LocalNode, now, leaseMs, hostId)
    IN r.ret = NoJob =>
         \/ Eligible(local, hostId, now) = {}
         \/ r.st.hosts[hostId].activeLeases >= r.st.hosts[hostId].maxParallel

C8_ClaimStep ==
  ClaimStep =>
    LET next == jobIndex(local, lastOp'.ret)
    IN /\ next \in Eligible(local, lastOp'.hostId, now)
       /\ \A i \in Eligible(local, lastOp'.hostId, now) :
            local.jobs[next].createdAt <= local.jobs[i].createdAt
       /\ coord'[LocalNode].jobs[next].createdAt = local.jobs[next].createdAt

C8_ClaimsEarliestCapableJob ==
  [](C8_NullOnlyWithoutCandidate) /\ [][C8_ClaimStep]_vars

\* claimJob has leased the earlier of two jobs the host is capable of, and
\* the later one is still queued.
W_C8 ==
  /\ lastOp.op = "claimJob" /\ lastOp.ret # NoJob
  /\ \E i \in DOMAIN local.jobs :
        /\ local.jobs[i].status = "queued"
        /\ local.jobs[i].requiredCapabilities \subseteq
             local.hosts[lastOp.hostId].capabilities
        /\ local.jobs[i].createdAt > jobOf(local, lastOp.ret).createdAt

\* claimJob has passed over an earlier job the host is not capable of.
W_C8_Skipped ==
  /\ lastOp.op = "claimJob" /\ lastOp.ret # NoJob
  /\ \E i \in DOMAIN local.jobs :
        /\ local.jobs[i].status = "queued"
        /\ ~(local.jobs[i].requiredCapabilities \subseteq
               local.hosts[lastOp.hostId].capabilities)
        /\ local.jobs[i].createdAt < jobOf(local, lastOp.ret).createdAt

(***************************************************************************)
(* C9.  The attempts of a job never decreases: it grows by exactly 1 in a  *)
(* claimJob that returns the job and is unchanged by every other           *)
(* operation.                                                              *)
(***************************************************************************)
C9_Step ==
  \A i \in DOMAIN local.jobs :
    /\ i \in DOMAIN coord'[LocalNode].jobs
    /\ coord'[LocalNode].jobs[i].id = local.jobs[i].id
    /\ coord'[LocalNode].jobs[i].attempts =
         local.jobs[i].attempts +
           (IF ClaimStep /\ lastOp'.ret = local.jobs[i].id THEN 1 ELSE 0)

C9_AttemptsCountClaims == [][C9_Step]_vars

\* A job was claimed, its lease ran out, and it was claimed again.
W_C9 ==
  /\ lastOp.op = "claimJob" /\ lastOp.ret # NoJob
  /\ jobOf(local, lastOp.ret).attempts = 2

(***************************************************************************)
(* C10.  requeueExpiredLeases returns to queued exactly the jobs that are  *)
(* leased with leaseExpiresAt <= now, clearing assignedHostId and          *)
(* leaseExpiresAt; it takes one from the activeLeases of the host each was *)
(* assigned to, not below 0; it leaves every other job unchanged and       *)
(* returns the number of jobs it requeued.                                 *)
(***************************************************************************)
ExpiredOf(st, hostId, t) ==
  {i \in DOMAIN st.jobs :
     Expired(st.jobs[i], t) /\ st.jobs[i].assignedHostId = hostId}

RequeueEffect(before, after, t, count) ==
  /\ DOMAIN after.jobs = DOMAIN before.jobs
  /\ DOMAIN after.hosts = DOMAIN before.hosts
  /\ \A i \in DOMAIN before.jobs :
        IF Expired(before.jobs[i], t)
        THEN /\ after.jobs[i].status = "queued"
             /\ after.jobs[i].assignedHostId = NoHost
             /\ after.jobs[i].leaseExpiresAt = NoTime
             /\ after.jobs[i].id = before.jobs[i].id
             /\ after.jobs[i].attempts = before.jobs[i].attempts
             /\ after.jobs[i].createdAt = before.jobs[i].createdAt
        ELSE after.jobs[i] = before.jobs[i]
  /\ \A h \in DOMAIN before.hosts :
        /\ after.hosts[h].activeLeases =
             Max(0, before.hosts[h].activeLeases
                      - Cardinality(ExpiredOf(before, h, t)))
        /\ after.hosts[h].maxParallel = before.hosts[h].maxParallel
        /\ after.hosts[h].capabilities = before.hosts[h].capabilities
  /\ count = Cardinality({i \in DOMAIN before.jobs : Expired(before.jobs[i], t)})

C10_EverySweep ==
  LET r == requeueExpiredLeases(local, LocalNode, now)
  IN RequeueEffect(local, r.st, now, r.ret)

C10_SweepStep ==
  (lastOp' # lastOp /\ lastOp'.op = "requeueExpiredLeases") =>
    RequeueEffect(local, coord'[LocalNode], now, lastOp'.ret)

C10_RequeueExactlyExpired ==
  [](C10_EverySweep) /\ [][C10_SweepStep]_vars

\* The sweep has requeued a lease at the very time it ran out, of a host
\* whose activeLeases was already 0, and has left another job alone.
W_C10 ==
  /\ lastOp.op = "requeueExpiredLeases" /\ lastOp.ret >= 1
  /\ now = leaseMs
  /\ \E i \in DOMAIN local.jobs :
        local.jobs[i].status = "queued" /\ local.jobs[i].attempts = 1
  /\ \E i \in DOMAIN local.jobs : local.jobs[i].attempts = 0

(***************************************************************************)
(* Vocabulary of the quorum write.                                         *)
(***************************************************************************)
\* The step starts a quorum write at node n, and the step answers it.
WriteBegins(n) == write[n].phase = "idle" /\ write'[n].phase = "replicating"
WriteEnds(n) == write[n].phase = "replicating" /\ write'[n].phase = "idle"

\* The last request of node n was answered with the result.
AnsweredWith(n, result) ==
  /\ write[n].phase = "idle"
  /\ "result" \in DOMAIN write[n]
  /\ write[n].result = result

\* The peers that answered 2xx to the push of the write that the step ends.
Answered2xx(n) ==
  write[n].answered
    \cup {msg.from : msg \in {x \in net \ net' : x.kind = "response" /\ x.status = 200}}

\* The hosts, jobs and services of the state are those of the snapshot, in
\* memory and in the tables of the store.
HoldsExactly(st, snap) ==
  /\ st.hosts = snap.hosts /\ st.jobs = snap.jobs /\ st.services = snap.services
  /\ st.disk.hosts = snap.hosts
  /\ st.disk.jobs = rowsOf(snap.jobs)
  /\ st.disk.services = rowsOf(snap.services)

(***************************************************************************)
(* C11.  The checkpoint of a quorum write is the hosts, jobs and services  *)
(* of the coordinator as they are right before the mutation; when fewer    *)
(* than requiredPeerAcks peers answered 2xx to the push, the request is    *)
(* answered "replication target not met" and the hosts, jobs and services  *)
(* of the coordinator, in memory and in the store, are those of the        *)
(* checkpoint.                                                             *)
(***************************************************************************)
C11_RollbackRestoresCheckpoint ==
  [][\A n \in Nodes :
       /\ WriteBegins(n) =>
            write'[n].checkpoint = snapshotInternal(coord[n], n)
       /\ (WriteEnds(n) /\ Cardinality(Answered2xx(n)) < requiredPeerAcks) =>
            /\ write'[n].result = "replication target not met"
            /\ HoldsExactly(coord'[n], write[n].checkpoint)]_vars

\* A write of node-a that registered h1 was rolled back, and left nothing
\* at node-a, after node-b had merged its snapshot and its answer was lost.
W_C11 ==
  /\ AnsweredWith(LocalNode, "replication target not met")
  /\ HoldsExactly(coord[LocalNode], snapshotInternal(EmptyState, LocalNode))
  /\ hasHost(coord["node-b"], "h1")

(***************************************************************************)
(* C12.  A mutating request that reaches a coordinator whose peer set has  *)
(* fewer members than the minReplicas - 1 acks it needs is answered        *)
(* "insufficient peers" at once: the state of the coordinator, in memory   *)
(* and in its store with the idempotency table, is unchanged, no job id is *)
(* made, and nothing is sent to any peer.                                  *)
(***************************************************************************)
\* The peer acks that the minReplicas option asks for.
AcksAskedFor == Max(0, normalizeMinReplicas(minReplicas) - 1)

\* The step handles a mutating request at node n, from its arrival.
RequestArrives(n) == write[n].phase = "idle" /\ write'[n] # write[n]

C12_InsufficientPeersChangesNothing ==
  [][\A n \in Nodes :
       (RequestArrives(n) /\ Cardinality(Peers(n)) < AcksAskedFor) =>
          /\ write'[n] = [phase |-> "idle", result |-> "insufficient peers"]
          /\ coord' = coord
          /\ net' = net
          /\ minted' = minted]_vars

\* Node-a, started with minReplicas 3 and one peer, has refused a request.
W_C12 ==
  /\ minReplicas = Number(3)
  /\ Cardinality(Peers(LocalNode)) = 1
  /\ AnsweredWith(LocalNode, "insufficient peers")
  /\ coord[LocalNode] = EmptyState

(***************************************************************************)
(* C13.  The snapshot pushed to every peer is the one taken after the      *)
(* mutation; the acks counted for a write are never more than the peers    *)
(* that answered 2xx to that push; and a write is answered with success,   *)
(* its mutation left in place, only when at least minReplicas - 1 peers    *)
(* answered 2xx.                                                           *)
(***************************************************************************)
C13_AcksAreAnswers ==
  \A n \in Nodes :
    write[n].phase = "replicating" =>
      /\ write[n].acked <= Cardinality(write[n].answered)
      /\ write[n].answered \subseteq Peers(n)

C13_Step ==
  \A n \in Nodes :
    /\ WriteBegins(n) =>
         net' \ net = {[kind |-> "push", from |-> n, to |-> p,
                        snapshot |-> snapshotInternal(coord'[n], n)] : p \in Peers(n)}
    /\ (WriteEnds(n) /\ write'[n].result = "ok") =>
         /\ Cardinality(Answered2xx(n)) >= AcksAskedFor
         /\ coord'[n].hosts = coord[n].hosts
         /\ coord'[n].jobs = coord[n].jobs
         /\ coord'[n].services = coord[n].services

C13_SuccessNeedsPeerAcks == [](C13_AcksAreAnswers) /\ [][C13_Step]_vars

\* With minReplicas 2, the registration of h1 at node-a was answered with
\* success after node-b had merged the snapshot and answered 200.
W_C13 ==
  /\ minReplicas = Unset
  /\ AnsweredWith(LocalNode, "ok")
  /\ hasHost(coord[LocalNode], "h1")
  /\ hasHost(coord["node-b"], "h1")

(***************************************************************************)
(* C14.  requiredPeerReplications(minReplicas) is max(0, n - 1), where n,  *)
(* the value of normalizeMinReplicas(minReplicas), is max(1, floor of      *)
(* minReplicas) for a finite minReplicas and 2 for one that is unset or    *)
(* not finite; assertPeerCapacity throws exactly when the peers are fewer  *)
(* than that.                                                              *)
(***************************************************************************)
\* The greatest integer not above the number of halves h.
FloorOfHalves(h) ==
  CHOOSE k \in (0 - 2)..(MaxMinReplicas + 2) : 2 * k <= h /\ h < 2 * (k + 1)

NormalizedAsClaimed(value) ==
  IF value.kind = "number"
  THEN (IF FloorOfHalves(value.halves) >= 1 THEN FloorOfHalves(value.halves) ELSE 1)
  ELSE 2

RequiredAsClaimed(value) ==
  IF NormalizedAsClaimed(value) - 1 >= 0 THEN NormalizedAsClaimed(value) - 1 ELSE 0

C14_RequiredPeerReplications ==
  /\ lastOp.op = "normalizeMinReplicas" =>
       lastOp.ret = NormalizedAsClaimed(minReplicas)
  /\ lastOp.op = "requiredPeerReplications" =>
       /\ lastOp.ret = RequiredAsClaimed(minReplicas)
       /\ minReplicas = Number(3) => lastOp.ret = 2
       /\ minReplicas = Number(1) => lastOp.ret = 0
  /\ lastOp.op = "assertPeerCapacity" =>
       (lastOp.ok <=> lastOp.ret >= RequiredAsClaimed(minReplicas))

\* requiredPeerReplications(2.5) has returned 1.
W_C14 ==
  /\ minReplicas = Halves(5)
  /\ lastOp.op = "requiredPeerReplications"
  /\ lastOp.ret = 1

(***************************************************************************)
(* C15.  In every reachable state restore(checkpoint()) leaves the         *)
(* snapshot of the state as it is; and once a checkpoint c, taken at any   *)
(* time, is restored after any operations, the hosts, jobs and services of *)
(* the coordinator, in memory and in the store, are those of c: nothing    *)
(* when c was taken of the empty state.                                    *)
(***************************************************************************)
C15_RestoreOfCheckpoint ==
  /\ snapshotInternal(restore(local, checkpoint(local, LocalNode)), LocalNode)
       = snapshotInternal(local, LocalNode)
  /\ lastOp.op = "restore" =>
       /\ HoldsExactly(local, write[LocalNode].checkpoint)
       /\ snapshotInternal(local, LocalNode) = write[LocalNode].checkpoint
       /\ write[LocalNode].checkpoint = checkpoint(EmptyState, LocalNode) =>
            /\ Len(local.jobs) = 0
            /\ DOMAIN local.hosts = {}

\* The checkpoint of the empty state was restored after a host had been
\* registered and a job enqueued; and a checkpoint with a host in it was
\* restored at a later time.
W_C15 ==
  /\ lastOp.op = "restore"
  /\ write[LocalNode].checkpoint = checkpoint(EmptyState, LocalNode)
  /\ minted = 1
  /\ local.disk.jobs = << >>

W_C15_Host ==
  /\ lastOp.op = "restore"
  /\ hasHost(local, "h1")
  /\ local.nextVersion = 2
  /\ now = 1

(***************************************************************************)
(* Vocabulary of the merge.                                                *)
(***************************************************************************)
\* The snapshots a coordinator may be handed: those of the pushes in
\* flight, and what GET /v1/state of each coordinator answers now.
Snapshots ==
  {msg.snapshot : msg \in {x \in net : x.kind = "push"}}
    \cup {snapshot(coord[p], p, now).snapshot : p \in Nodes}

\* The hosts, jobs and services of a state.
Entities(st) == <<st.hosts, st.jobs, st.services>>

(***************************************************************************)
(* C16.  For every coordinator and every snapshot it may be handed, a      *)
(* second mergeSnapshot of the snapshot right after the first returns      *)
(* changed = false and leaves the state, with its hosts, jobs, services    *)
(* and nextVersion, as the first left it; the first returns changed = true *)
(* exactly when it changed a host, a job or a service.                     *)
(***************************************************************************)
C16_MergeIsIdempotent ==
  \A m \in Nodes, S \in Snapshots :
    LET first == mergeSnapshot(coord[m], S)
        second == mergeSnapshot(first.st, S)
    IN /\ ~second.changed
       /\ second.st = first.st
       /\ first.changed <=> Entities(first.st) # Entities(coord[m])
       /\ ~first.changed => first.st = coord[m]

\* Node-b has merged the snapshot of node-a with its host and its service,
\* and node-a holds now what it pushed: merging it again changes nothing.
W_C16 ==
  /\ hasHost(coord["node-b"], "h1")
  /\ hasService(coord["node-b"], "s1")
  /\ Entities(coord["node-b"]) = Entities(local)
  /\ ~mergeSnapshot(coord["node-b"], snapshot(local, LocalNode, now).snapshot).changed

\* A snapshot of node-a is on its way to node-b, which will adopt a service
\* from it.
W_C16_Changed ==
  \E msg \in net :
    /\ msg.kind = "push" /\ msg.to = "node-b"
    /\ Len(msg.snapshot.services) = 1
    /\ ~hasService(coord["node-b"], "s1")
    /\ mergeSnapshot(coord["node-b"], msg.snapshot).changed

(***************************************************************************)
(* C17.  As claimed: mergeSnapshot adopts an incoming host, job or service *)
(* exactly when the coordinator has no record of that id or the incoming   *)
(* record is strictly greater than its own in the lexicographic order of   *)
(* (version, updatedAt, updatedBy), the updatedAt of a host being its      *)
(* lastSeenAt; a record that is not adopted leaves the local one as it is. *)
(***************************************************************************)
\* The incoming record comes strictly after the local one, their updatedAt
\* components being localAt and incomingAt.
StrictlyGreater(localRecord, incoming, localAt, incomingAt) ==
  \/ incoming.version > localRecord.version
  \/ /\ incoming.version = localRecord.version
     /\ \/ incomingAt > localAt
        \/ incomingAt = localAt
             /\ stringAfter(incoming.updatedBy, localRecord.updatedBy)

\* What the merge is to leave under the id of an incoming record.
Merged(localRecord, incoming, localAt, incomingAt) ==
  IF StrictlyGreater(localRecord, incoming, localAt, incomingAt)
  THEN incoming ELSE localRecord

C17_AdoptsStrictlyGreater ==
  \A m \in Nodes, S \in Snapshots :
    LET st == coord[m]
        after == mergeSnapshot(st, S).st
    IN /\ \A id \in DOMAIN S.hosts :
            after.hosts[id] =
              IF hasHost(st, id)
              THEN Merged(st.hosts[id], S.hosts[id],
                          st.hosts[id].lastSeenAt, S.hosts[id].lastSeenAt)
              ELSE S.hosts[id]
       /\ \A i \in DOMAIN S.jobs :
            jobOf(after, S.jobs[i].id) =
              IF hasJob(st, S.jobs[i].id)
              THEN Merged(jobOf(st, S.jobs[i].id), S.jobs[i],
                          jobOf(st, S.jobs[i].id).updatedAt, S.jobs[i].updatedAt)
              ELSE S.jobs[i]
       /\ \A i \in DOMAIN S.services :
            serviceOf(after, S.services[i].id) =
              IF hasService(st, S.services[i].id)
              THEN Merged(serviceOf(st, S.services[i].id), S.services[i],
                          serviceOf(st, S.services[i].id).updatedAt,
                          S.services[i].updatedAt)
              ELSE S.services[i]

(***************************************************************************)
(* C18.  Convergence, in its finite form.  Once the client requests have   *)
(* been answered, no message is in flight, no lease is running and no      *)
(* fetch of the periodic sync changes either side any more, nothing but    *)
(* client requests can change a coordinator again; what the coordinators   *)
(* hold then is what they hold for good, and as claimed it is the same     *)
(* hosts, jobs and services at every coordinator, whatever writes,         *)
(* rollbacks and merges came before.                                       *)
(***************************************************************************)
\* No request is being served, nothing is in flight and no job is leased,
\* so that neither the sweeper nor a snapshot changes a coordinator.
Quiescent ==
  /\ net = {}
  /\ \A n \in Nodes :
       /\ write[n].phase = "idle"
       /\ \A i \in DOMAIN coord[n].jobs : coord[n].jobs[i].status # "leased"

\* Every fetch of the periodic sync leaves both coordinators as they are.
SyncSettled ==
  \A m \in Nodes :
    \A p \in Peers(m) :
      LET s == snapshot(coord[p], p, now)
      IN /\ s.st = coord[p]
         /\ mergeSnapshot(coord[m], s.snapshot).st = coord[m]

\* The records of a state by id: the same version, updatedBy and contents.
Held(st) == <<st.hosts, rowsOf(st.jobs), rowsOf(st.services)>>

C18_SettledCoordinatorsAgree ==
  Quiescent /\ SyncSettled => \A m, p \in Nodes : Held(coord[m]) = Held(coord[p])

(***************************************************************************)
(* C19.  On one coordinator under its nine local operations: no two of its *)
(* hosts, jobs and services carry the same version, every version has been *)
(* handed out by nextVersion, and an operation that changes the record of  *)
(* a host, a job or a service leaves it with a version strictly greater    *)
(* than the one it had, which is greater than all versions handed out      *)
(* before.                                                                 *)
(***************************************************************************)
\* The records of a state, each under its kind and id.
Records(st) ==
  {<<"host", id, st.hosts[id]>> : id \in DOMAIN st.hosts}
    \cup {<<"job", st.jobs[i].id, st.jobs[i]>> : i \in DOMAIN st.jobs}
    \cup {<<"service", st.services[i].id, st.services[i]>> :
             i \in DOMAIN st.services}

VersionsDiffer(st) ==
  \A r, s \in Records(st) :
    /\ r[3].version = s[3].version => r = s
    /\ r[3].version \in 1..(st.nextVersion - 1)

UpdatesIncreaseVersion(before, after) ==
  \A s \in Records(after) :
    s \notin Records(before) =>
      /\ s[3].version >= before.nextVersion
      /\ \A r \in Records(before) : s[3].version > r[3].version

C19_VersionsIncreaseAndDiffer ==
  /\ [](VersionsDiffer(local))
  /\ [][UpdatesIncreaseVersion(local, local')]_vars

\* A host, a job and a service are held; the host and the service have been
\* updated after they were created.
W_C19 ==
  /\ \E id \in DOMAIN local.hosts : local.hosts[id].version > 1
  /\ Len(local.jobs) > 0
  /\ \E i \in DOMAIN local.services :
       local.services[i].createdAt < local.services[i].updatedAt

\* The sweep has taken an expired lease back.
W_C19_Requeued ==
  /\ lastOp.op = "requeueExpiredLeases"
  /\ lastOp.ret > 0

(***************************************************************************)
(* C20.  As claimed: no step of a coordinator, be it a local mutation, a   *)
(* mergeSnapshot or the restore of a checkpoint in a quorum rollback,      *)
(* lowers its nextVersion.                                                 *)
(***************************************************************************)
C20_NextVersionNeverDecreases ==
  [][\A n \in Nodes : coord'[n].nextVersion >= coord[n].nextVersion]_vars

(***************************************************************************)
(* Vocabulary of the idempotency ledger.                                   *)
(***************************************************************************)
\* The ledger of a state, and the row it has for the route and the key of
\* a request.
Ledger(st) == st.disk.idempotency
Recorded(st, req) ==
  keyOf(req) # NoKey /\ <<routeOf(req), keyOf(req)>> \in DOMAIN Ledger(st)
Row(st, req) == Ledger(st)[<<routeOf(req), keyOf(req)>>]

\* The row was written for this route and body.
SameRequest(st, req) ==
  Row(st, req).requestHash = [route |-> routeOf(req), body |-> bodyOf(req)]

\* The request that arrives at node n in a step with RequestArrives(n).
Asked(n) == write'[n].req

(***************************************************************************)
(* C21.  A request that arrives with a key under which the ledger has a    *)
(* row of the same route and the same request hash is answered with the    *)
(* status code and the body of the row, and the step does nothing else:    *)
(* no coordinator changes its hosts, jobs, services, nextVersion or        *)
(* tables, no job id is made and no message is sent.                       *)
(***************************************************************************)
C21_ReplayChangesNothing ==
  [][\A n \in Nodes :
       (/\ RequestArrives(n)
        /\ Recorded(coord[n], Asked(n))
        /\ SameRequest(coord[n], Asked(n))) =>
          /\ write'[n].phase = "idle"
          /\ write'[n].statusCode = Row(coord[n], Asked(n)).statusCode
          /\ write'[n].body = Row(coord[n], Asked(n)).body
          /\ coord' = coord
          /\ net' = net
          /\ minted' = minted]_vars

\* The enqueue under key k1 has been answered from the ledger with the job
\* of the first time, and node-a still holds that one job only.
W_C21 ==
  /\ AnsweredWith(LocalNode, "replayed")
  /\ write[LocalNode].req.op = "enqueueJob"
  /\ write[LocalNode].req.key = "k1"
  /\ write[LocalNode].statusCode = 200
  /\ write[LocalNode].body = toResponseBody(1)
  /\ Len(local.jobs) = 1

(***************************************************************************)
(* C22.  A request that arrives with a key under which the ledger has a    *)
(* row of the same route and another request hash is answered 409 with     *)
(* "idempotency key reuse conflict", and the step does nothing else: the   *)
(* row stays as it is, no coordinator changes, no job id is made and no    *)
(* message is sent.                                                        *)
(***************************************************************************)
C22_KeyReuseConflicts ==
  [][\A n \in Nodes :
       (/\ RequestArrives(n)
        /\ Recorded(coord[n], Asked(n))
        /\ ~SameRequest(coord[n], Asked(n))) =>
          /\ write'[n].phase = "idle"
          /\ write'[n].statusCode = 409
          /\ write'[n].body.error = "idempotency key reuse conflict"
          /\ Ledger(coord'[n]) = Ledger(coord[n])
          /\ coord' = coord
          /\ net' = net
          /\ minted' = minted]_vars

\* The enqueue under key k1 came again with the other body and has been
\* refused; the row of the first body is still there.
W_C22 ==
  /\ AnsweredWith(LocalNode, "idempotency key reuse conflict")
  /\ write[LocalNode].statusCode = 409
  /\ Recorded(local, write[LocalNode].req)
  /\ bodyOf(write[LocalNode].req) # Row(local, write[LocalNode].req).requestHash.body

(***************************************************************************)
(* C23.  The ledger changes only in the step that ends a quorum write with *)
(* success, the peers having acked as often as minReplicas asks for, and   *)
(* then by the one row of the route and key of that request, with status   *)
(* 200.  A request that came with a key and was answered insufficient      *)
(* peers, replication target not met or with a thrown error has no row,    *)
(* and a request that arrives with a key that has no row is executed: it   *)
(* is neither replayed nor refused as a conflict.                          *)
(***************************************************************************)
Failures == {"insufficient peers", "replication target not met", "threw"}

\* The acks counted when the step ends the quorum write of node n.
AcksCounted(n) ==
  write[n].acked
    + Cardinality({msg \in net \ net' : msg.kind = "response" /\ msg.ok})

FailedLeavesNoRow ==
  \A n \in Nodes :
    (\E f \in Failures : AnsweredWith(n, f)) /\ keyOf(write[n].req) # NoKey
       => ~Recorded(coord[n], write[n].req)

RowsOnlyOnSuccess(n) ==
  Ledger(coord'[n]) # Ledger(coord[n]) =>
    /\ WriteEnds(n)
    /\ write'[n].result = "ok"
    /\ AcksCounted(n) >= AcksAskedFor
    /\ keyOf(write[n].req) # NoKey
    /\ ~Recorded(coord[n], write[n].req)
    /\ Recorded(coord'[n], write[n].req)
    /\ Row(coord'[n], write[n].req).statusCode = 200
    /\ SameRequest(coord'[n], write[n].req)
    /\ \A rk \in DOMAIN Ledger(coord[n]) :
         rk \in DOMAIN Ledger(coord'[n])
           /\ Ledger(coord'[n])[rk] = Ledger(coord[n])[rk]
    /\ DOMAIN Ledger(coord'[n]) =
         DOMAIN Ledger(coord[n])
           \cup {<<routeOf(write[n].req), keyOf(write[n].req)>>}

UnrecordedIsExecuted(n) ==
  RequestArrives(n) /\ ~Recorded(coord[n], Asked(n)) =>
    \/ write'[n].phase = "replicating"
    \/ write'[n].result \in {"insufficient peers", "threw"}

C23_LedgerRecordsSuccessOnly ==
  /\ [](FailedLeavesNoRow)
  /\ [][\A n \in Nodes : RowsOnlyOnSuccess(n) /\ UnrecordedIsExecuted(n)]_vars

\* The enqueue under key k1 has succeeded with the second job id, the
\* first job having been rolled back: node-a holds job 2 only, and the
\* only row of the ledger is that of k1.
W_C23 ==
  /\ AnsweredWith(LocalNode, "ok")
  /\ write[LocalNode].req.op = "enqueueJob"
  /\ write[LocalNode].req.key = "k1"
  /\ write[LocalNode].body = toResponseBody(2)
  /\ Len(local.jobs) = 1
  /\ Cardinality(DOMAIN Ledger(local)) = 1

\* The enqueue under key k1 has missed its replication target and left no
\* row.
W_C23_Failed ==
  /\ AnsweredWith(LocalNode, "replication target not met")
  /\ write[LocalNode].req.key = "k1"
  /\ Ledger(local) = << >>

\* The completion under key k1 has thrown and left no row.
W_C23_Threw ==
  /\ AnsweredWith(LocalNode, "threw")
  /\ write[LocalNode].req.key = "k1"
  /\ ~Recorded(local, write[LocalNode].req)

(***************************************************************************)
(* C24.  As claimed: in every state each service of the coordinator has at *)
(* most as many assignments as its replicas say, and a claimService that   *)
(* adds an assignment to a service adds it to one that had fewer than      *)
(* replicas.                                                               *)
(***************************************************************************)
\* The service has at most, and fewer than, replicas assignments.
WithinReplicas(service) ==
  Number(Len(service.assignments)).halves <= service.replicas.halves
BelowReplicas(service) ==
  Number(Len(service.assignments)).halves < service.replicas.halves

C24_AtMostReplicasAssignments ==
  /\ [](\A i \in DOMAIN local.services : WithinReplicas(local.services[i]))
  /\ [][\A i \in DOMAIN local.services :
          \A j \in DOMAIN local'.services :
            (/\ local'.services[j].id = local.services[i].id
             /\ Len(local'.services[j].assignments)
                  > Len(local.services[i].assignments))
              => BelowReplicas(local.services[i])]_vars

(***************************************************************************)
(* C25.  As claimed: between the operations of the coordinator, the status *)
(* of each service that has assignments is the one derived from them:      *)
(* running if one of them is running, else pending if one of them is       *)
(* pending, else failed.  (A service without assignments is left out: it   *)
(* is pending from its deployService on.)                                  *)
(***************************************************************************)
Derived(assignments) ==
  IF \E k \in DOMAIN assignments : assignments[k].status = "running"
  THEN "running"
  ELSE IF \E k \in DOMAIN assignments : assignments[k].status = "pending"
       THEN "pending"
       ELSE "failed"

C25_StatusDerivedFromAssignments ==
  \A i \in DOMAIN local.services :
    local.services[i].assignments # << >> =>
      local.services[i].status = Derived(local.services[i].assignments)

(***************************************************************************)
(* C26.  As claimed: when a job has been submitted through POST            *)
(* /v1/public/jobs with one configured key and GET /v1/public/jobs/:id     *)
(* asks for it with another configured key, the answer is 404 with the     *)
(* body of an unknown job, which holds nothing of the job.                 *)
(***************************************************************************)
\* Node n has answered the submission of a job with a configured key.
Submitted(n) ==
  /\ AnsweredWith(n, "ok")
  /\ write[n].req.op = "enqueueJob"
  /\ "apiKey" \in DOMAIN write[n].req

\* The step answers at node n a GET of the job just submitted, asked with
\* another configured key.
FetchedByAnother(n) ==
  /\ Submitted(n)
  /\ write'[n] # write[n]
  /\ write'[n].phase = "idle"
  /\ write'[n].req.op = "publicGetJob"
  /\ write'[n].req.jobId = write[n].body.value
  /\ write'[n].req.apiKey # write[n].req.apiKey
  /\ resolvePublicApiKey(write'[n].req.apiKey, options.publicApiKeys) # NoApiKey

C26_PublicJobsIsolatedByKey ==
  [][\A n \in Nodes :
       FetchedByAnother(n) =>
         /\ write'[n].statusCode = 404
         /\ write'[n].body = [error |-> "job not found"]]_vars

(***************************************************************************)
(* C27.  The peer set of a coordinator that has a public URL never holds   *)
(* that URL in its normalized form, whatever the seeds, the join requests  *)
(* and the answers read by the discovery; and a join request whose URL     *)
(* normalizes to something else than the node's own URL puts the           *)
(* normalized URL into the peer set and is answered with the peer set as   *)
(* it then is.                                                             *)
(***************************************************************************)
SelfNotPeer ==
  \A n \in Nodes : selfPublicUrl # NoUrl => selfPublicUrl \notin peerSet[n]

JoinAdds ==
  \A n \in Nodes :
    (/\ write'[n] # write[n]
     /\ write'[n].req.op = "join"
     /\ normalizeBaseUrl(write'[n].req.url) \notin {NoUrl, selfPublicUrl})
    => /\ peerSet'[n] = peerSet[n] \cup {normalizeBaseUrl(write'[n].req.url)}
       /\ write'[n].statusCode = 200
       /\ write'[n].body.peers = peerSet'[n]

C27_PeerSetExcludesSelf == []SelfNotPeer /\ [][JoinAdds]_vars

\* A node whose seeds named its own URL was asked to join another URL and
\* answered with its peer set, the new URL in it.
W_C27 ==
  /\ selfPublicUrl # NoUrl
  /\ \E i \in DOMAIN options.peerUrls :
       normalizeBaseUrl(options.peerUrls[i]) = selfPublicUrl
  /\ "req" \in DOMAIN write[LocalNode]
  /\ write[LocalNode].req.op = "join"
  /\ write[LocalNode].statusCode = 200
  /\ normalizeBaseUrl(write[LocalNode].req.url) \in peerSet[LocalNode]
  /\ write[LocalNode].body.peers = peerSet[LocalNode]

\* A node was asked to join its own URL, written another way than in its
\* options, after its discovery had read answers naming two other URLs.
W_C27_SelfJoin ==
  /\ selfPublicUrl # NoUrl
  /\ options.publicUrl # selfPublicUrl
  /\ "req" \in DOMAIN write[LocalNode]
  /\ write[LocalNode].req.op = "join"
  /\ write[LocalNode].statusCode = 200
  /\ write[LocalNode].req.url # options.publicUrl
  /\ normalizeBaseUrl(write[LocalNode].req.url) = selfPublicUrl
  /\ Cardinality(peerSet[LocalNode]) >= 2

(***************************************************************************)
(* C28.  A CoordinatorState opened on the dbPath of an earlier one holds   *)
(* the hosts and the jobs that the earlier one held after its last         *)
(* operation, each with the same status, assignedHostId, leaseExpiresAt,   *)
(* attempts and version; its nextVersion is one more than the highest      *)
(* version in the store; and a job that was leased when it was opened goes *)
(* back to queued in the first sweep, claimJob or snapshot that runs when  *)
(* the lease has run out.                                                  *)
(***************************************************************************)
Reopens == opened'[LocalNode].count # opened[LocalNode].count

\* What the claim compares of a job.
Kept(job) ==
  [id |-> job.id, status |-> job.status, assignedHostId |-> job.assignedHostId,
   leaseExpiresAt |-> job.leaseExpiresAt, attempts |-> job.attempts,
   version |-> job.version]

PersistedVersions(disk) ==
  {disk.hosts[id].version : id \in DOMAIN disk.hosts}
    \cup {disk.jobs[id].version : id \in DOMAIN disk.jobs}
    \cup {disk.services[id].version : id \in DOMAIN disk.services}

ReopenedHoldsTheSame ==
  Reopens =>
    /\ coord'[LocalNode].hosts = local.hosts
    /\ Len(coord'[LocalNode].jobs) = Len(local.jobs)
    /\ {Kept(coord'[LocalNode].jobs[i]) : i \in DOMAIN coord'[LocalNode].jobs}
         = {Kept(local.jobs[i]) : i \in DOMAIN local.jobs}
    /\ coord'[LocalNode].nextVersion = maxOf(PersistedVersions(local.disk)) + 1

\* The lease that the job had when the state was opened is still the one
\* it has.
LeasedSinceOpened(job) ==
  /\ opened[LocalNode].count > 1
  /\ job.status = "leased"
  /\ \E i \in DOMAIN opened[LocalNode].jobs :
       LET before == opened[LocalNode].jobs[i]
       IN before.id = job.id /\ before.status = "leased"
          /\ before.attempts = job.attempts
          /\ before.leaseExpiresAt > opened[LocalNode].at

Sweeps ==
  /\ coord'[LocalNode] # local
  /\ lastOp'.op \in {"requeueExpiredLeases", "claimJob"}

OutstandingLeaseRequeued ==
  Sweeps =>
    \A i \in DOMAIN local.jobs :
      (LeasedSinceOpened(local.jobs[i]) /\ local.jobs[i].leaseExpiresAt <= now)
      => \E j \in DOMAIN coord'[LocalNode].jobs :
           LET job == coord'[LocalNode].jobs[j]
           IN /\ job.id = local.jobs[i].id
              /\ \/ job.status = "queued" /\ job.assignedHostId = NoHost
                    /\ job.leaseExpiresAt = NoTime
                    /\ job.attempts = local.jobs[i].attempts
                 \/ job.status = "leased" /\ job.leaseExpiresAt > now
                    /\ job.attempts = local.jobs[i].attempts + 1

C28_ReopenedStateRecovers ==
  [][ReopenedHoldsTheSame /\ OutstandingLeaseRequeued]_vars

\* The job that was leased when the state was opened, with a lease still to
\* run, has been requeued by the state that was opened.
W_C28 ==
  /\ opened[LocalNode].count > 1
  /\ lastOp.op = "requeueExpiredLeases"
  /\ local.nextVersion > 5
  /\ \E i \in DOMAIN local.jobs, j \in DOMAIN opened[LocalNode].jobs :
       /\ opened[LocalNode].jobs[j].id = local.jobs[i].id
       /\ opened[LocalNode].jobs[j].status = "leased"
       /\ opened[LocalNode].jobs[j].leaseExpiresAt > opened[LocalNode].at
       /\ local.jobs[i].status = "queued"
       /\ local.jobs[i].attempts = opened[LocalNode].jobs[j].attempts

\* A state has just been opened on a store with a host, a leased job and a
\* service, the service having the highest version.
W_C28_Reopened ==
  /\ lastOp.op = "restart"
  /\ DOMAIN local.hosts # {}
  /\ \E i \in DOMAIN local.jobs : local.jobs[i].status = "leased"
  /\ \E i \in DOMAIN local.services :
       local.services[i].version = local.nextVersion - 1

(***************************************************************************)
(* C29.  A job that went back to queued when its lease ran out is leased   *)
(* again when an eligible host with spare capacity calls claimJob.  On     *)
(* the finite run: in every state in which a job is queued after a lease   *)
(* and the host is registered, capable of the job and holds fewer leased   *)
(* jobs than its maxParallel, the claimJob of the host returns a job.      *)
(***************************************************************************)
LeaseJobs == 1..MaxLeaseJobs

\* The job is queued after a lease.
QueuedAgain(jobId) ==
  /\ hasJob(local, jobId)
  /\ jobOf(local, jobId).status = "queued"
  /\ jobOf(local, jobId).attempts >= 1

\* The host is registered, capable of the job and holds fewer leases than
\* it can run jobs at a time.
SpareCapacityFor(hostId, jobId) ==
  /\ hasHost(local, hostId)
  /\ hasCapabilities(local.hosts[hostId].capabilities,
                     jobOf(local, jobId).requiredCapabilities)
  /\ Cardinality(LeasedTo(local, hostId)) < local.hosts[hostId].maxParallel

C29_RequeuedJobLeasedAgain ==
  \A jobId \in LeaseJobs :
    (QueuedAgain(jobId) /\ SpareCapacityFor(LeaseHost, jobId))
    => claimJob(local, LocalNode, now, leaseMs, LeaseHost).ret # NoJob

(***************************************************************************)
(* C30.  In every state of the fleet and for every registered host,        *)
(* claimService takes the first service in creation order, among those the *)
(* host is capable of, on which the host has an assignment that has not    *)
(* failed or on which it has none and which has fewer assignments than its *)
(* replicas: with an assignment it returns the service and the state is    *)
(* as before, nextVersion included; without one the service gets a pending *)
(* assignment of the host at the end and a new version, and nothing else   *)
(* changes; when there is no such service it returns null and the state is *)
(* as before.  A service on which the assignment of the host has failed is *)
(* passed over.                                                            *)
(***************************************************************************)
AssignedOn(service, hostId) ==
  \E k \in DOMAIN service.assignments : service.assignments[k].hostId = hostId

FailedOn(service, hostId) ==
  \E k \in DOMAIN service.assignments :
    /\ service.assignments[k].hostId = hostId
    /\ service.assignments[k].status = "failed"

\* The host is capable of the service, and holds it or can be given it.
Qualifies(service, hostId) ==
  /\ hasCapabilities(local.hosts[hostId].capabilities, service.requiredCapabilities)
  /\ IF AssignedOn(service, hostId) THEN ~FailedOn(service, hostId)
     ELSE 2 * Len(service.assignments) < service.replicas.halves

\* Creation order: by createdAt, and in the order of the map for equal times.
CreatedBefore(i, j) ==
  \/ local.services[i].createdAt < local.services[j].createdAt
  \/ local.services[i].createdAt = local.services[j].createdAt /\ i < j

\* The first service in creation order that qualifies, 0 when none does.
FirstQualifying(hostId) ==
  LET qualifying == {i \in DOMAIN local.services : Qualifies(local.services[i], hostId)}
  IN IF qualifying = {} THEN 0
     ELSE CHOOSE i \in qualifying : \A j \in qualifying \ {i} : CreatedBefore(i, j)

C30_ClaimServiceInCreationOrder ==
  \A hostId \in DOMAIN local.hosts :
    LET r == claimService(local, LocalNode, now, hostId)
        i == FirstQualifying(hostId)
    IN /\ r.ok
       /\ IF i = 0 THEN r.ret = NoService /\ r.st = local
          ELSE /\ r.ret = local.services[i].id
               /\ IF AssignedOn(local.services[i], hostId) THEN r.st = local
                  ELSE /\ r.st.hosts = local.hosts
                       /\ r.st.jobs = local.jobs
                       /\ r.st.nextVersion = local.nextVersion + 1
                       /\ r.st.services =
                            [local.services EXCEPT
                               ![i].assignments =
                                 Append(@, [hostId |-> hostId, status |-> "pending",
                                            startedAt |-> NoTime, updatedAt |-> now]),
                               ![i].version = local.nextVersion,
                               ![i].updatedAt = now,
                               ![i].updatedBy = LocalNode]

\* A claimService has passed over the service on which the assignment of
\* the host had failed and given the host the next one.
W_C30 ==
  /\ lastOp.op = "claimService"
  /\ \E i, j \in DOMAIN local.services :
       /\ CreatedBefore(i, j)
       /\ FailedOn(local.services[i], lastOp.hostId)
       /\ lastOp.ret = local.services[j].id
       /\ AssignedOn(local.services[j], lastOp.hostId)
       /\ ~FailedOn(local.services[j], lastOp.hostId)

\* A claimService has given the host the service created first, which is
\* not the first of the map, and a further claimService returns it again
\* and changes nothing.
W_C30_Again ==
  /\ lastOp.op = "claimService"
  /\ \E i, j \in DOMAIN local.services :
       /\ j < i
       /\ CreatedBefore(i, j)
       /\ Qualifies(local.services[j], lastOp.hostId)
       /\ lastOp.ret = local.services[i].id
       /\ claimService(local, LocalNode, now, lastOp.hostId)
            = [ok |-> TRUE, st |-> local, ret |-> lastOp.ret]

(***************************************************************************)
(* C31.  In every state of the fleet, for every service id, host id and    *)
(* reported status: a reportService for a service that is not known or on  *)
(* which the host has no assignment throws and the state is as before,     *)
(* the service, its version and nextVersion included; otherwise the        *)
(* startedAt of the assignment of the host is the time of the report when  *)
(* the report says running and the assignment had no startedAt, and is as  *)
(* before in every other case, and no other assignment changes.            *)
(***************************************************************************)
C31_StartedAtSetOnce ==
  \A serviceId \in ServiceIds, hostId \in HostIds, status \in ServiceStatusInputs :
    LET r == reportService(local, LocalNode, now, serviceId, hostId, status)
    IN IF ~hasService(local, serviceId) \/ ~AssignedOn(serviceOf(local, serviceId), hostId)
       THEN ~r.ok /\ r.st = local
       ELSE
         LET before == serviceOf(local, serviceId).assignments
             after == serviceOf(r.st, serviceId).assignments
         IN /\ r.ok
            /\ DOMAIN after = DOMAIN before
            /\ \A k \in DOMAIN before :
                 IF before[k].hostId # hostId THEN after[k] = before[k]
                 ELSE /\ after[k].hostId = hostId
                      /\ after[k].status = status
                      /\ after[k].startedAt =
                           IF before[k].startedAt = NoTime /\ status = "running"
                           THEN now ELSE before[k].startedAt

\* An assignment that started earlier has been reported again, running, and
\* has kept its startedAt.
W_C31 ==
  /\ lastOp.op = "reportService"
  /\ lastOp.ok
  /\ \E i \in DOMAIN local.services :
       \E k \in DOMAIN local.services[i].assignments :
         LET assignment == local.services[i].assignments[k]
         IN /\ assignment.hostId = lastOp.hostId
            /\ assignment.status = "running"
            /\ assignment.updatedAt = now
            /\ assignment.startedAt # NoTime
            /\ assignment.startedAt < now

\* A report of a host that has no assignment on the service was refused in
\* a state that holds a started assignment of another host.
W_C31_Refused ==
  \E i \in DOMAIN local.services, hostId \in DOMAIN local.hosts :
    /\ ~AssignedOn(local.services[i], hostId)
    /\ \E k \in DOMAIN local.services[i].assignments :
         local.services[i].assignments[k].startedAt # NoTime
    /\ ~reportService(local, LocalNode, now, local.services[i].id, hostId, "running").ok

(***************************************************************************)
(* C32.  On every coordinator of the cluster: the checkpoint a write takes *)
(* holds the hosts, jobs and services as they are before the write, the    *)
(* leases that have run out still leased; the snapshot the write then      *)
(* pushes holds the state after the write with every lease that has run    *)
(* out requeued; and the checkpoint kept by a write stays as it was taken  *)
(* whatever is applied to the state while the write waits, and a snapshot  *)
(* in flight is one that was in flight before or the one just taken.       *)
(***************************************************************************)
EntriesOf(seq) == {seq[i] : i \in DOMAIN seq}

\* The snapshot holds exactly the hosts, jobs and services of the state.
CopyOf(snap, st) ==
  /\ snap.hosts = st.hosts
  /\ Len(snap.jobs) = Len(st.jobs) /\ EntriesOf(snap.jobs) = EntriesOf(st.jobs)
  /\ Len(snap.services) = Len(st.services)
  /\ EntriesOf(snap.services) = EntriesOf(st.services)

RunOutIn(jobs, t) == {i \in DOMAIN jobs : Expired(jobs[i], t)}

\* Node n begins a write in this step.
Begins(n) == write[n].phase = "idle" /\ write'[n].phase = "replicating"

CheckpointAsIs ==
  \A n \in Nodes : Begins(n) => CopyOf(write'[n].checkpoint, coord[n])

SnapshotSwept ==
  \A msg \in net' \ net :
    msg.kind = "push" =>
      /\ Begins(msg.from)
      /\ CopyOf(msg.snapshot, coord'[msg.from])
      /\ RunOutIn(msg.snapshot.jobs, now) = {}
      /\ RunOutIn(coord'[msg.from].jobs, now) = {}

CopiesKept ==
  \A n \in Nodes :
    (write[n].phase = "replicating" /\ write'[n].phase = "replicating")
    => write'[n].checkpoint = write[n].checkpoint

C32_CheckpointAsIsSnapshotSwept ==
  [][CheckpointAsIs /\ SnapshotSwept /\ CopiesKept]_vars

\* A write took its checkpoint with a lease in it that had run out, and its
\* snapshot, in flight, holds the job queued.
W_C32 ==
  \E n \in Nodes, msg \in net :
    /\ write[n].phase = "replicating"
    /\ msg.kind = "push" /\ msg.from = n
    /\ \E i \in RunOutIn(write[n].checkpoint.jobs, now) :
         \E j \in DOMAIN msg.snapshot.jobs :
           /\ msg.snapshot.jobs[j].id = write[n].checkpoint.jobs[i].id
           /\ msg.snapshot.jobs[j].status = "queued"

\* While a write waits, the state of its node has taken in the snapshot of
\* its peer; the checkpoint of the write is still the one of the state
\* before the write.
W_C32_Kept ==
  \E n \in Nodes :
    /\ write[n].phase = "replicating"
    /\ \E h \in DOMAIN coord[n].hosts :
         /\ coord[n].hosts[h].updatedBy # n
         /\ h \notin DOMAIN write[n].checkpoint.hosts

(***************************************************************************)
(* C33.  On every coordinator of the cluster, between the operations (the  *)
(* mutations of the requests, the sweeper, the merges of the snapshots of  *)
(* the peer and the restore of a write that is rolled back), the hosts     *)
(* table holds exactly the hosts of the map, and the jobs table exactly    *)
(* the jobs of the map, each as it is in memory.                           *)
(***************************************************************************)
Mirrored(st) ==
  /\ st.disk.hosts = st.hosts
  /\ st.disk.jobs = rowsOf(st.jobs)

C33_DurableMirror == \A n \in Nodes : Mirrored(coord[n])

\* A job was enqueued and its write rolled back: no coordinator holds a job,
\* in memory or in its table, and nothing is in flight.
W_C33 ==
  /\ minted = 1
  /\ net = {}
  /\ \A n \in Nodes :
       /\ write[n].phase = "idle"
       /\ coord[n].jobs = << >>
       /\ DOMAIN coord[n].disk.jobs = {}

\* A coordinator holds in its tables a host and a leased job that it took
\* from the snapshot of its peer.
W_C33_Adopted ==
  \E n \in Nodes :
    /\ \E h \in DOMAIN coord[n].disk.hosts : coord[n].disk.hosts[h].updatedBy # n
    /\ \E j \in DOMAIN coord[n].disk.jobs :
         /\ coord[n].disk.jobs[j].updatedBy # n
         /\ coord[n].disk.jobs[j].status = "leased"

(***************************************************************************)
(* C34.  The answers nextEndpoint gave for a service key since the         *)
(* registry was last updated, taken over any stretch of calls at each of   *)
(* which all n endpoints of the key were healthy: two answers of the       *)
(* stretch fewer than n calls apart are different endpoints, and two       *)
(* answers n calls apart are the same endpoint.                            *)
(***************************************************************************)
AllHealthy(answers, i, j) == \A k \in i..j : answers[k].healthy

C34_RoundRobin ==
  \A serviceKey \in DOMAIN gateway.served :
    LET answers == gateway.served[serviceKey]
        n == Len(gateway.states[serviceKey].endpoints)
    IN \A i, j \in DOMAIN answers :
         (i < j /\ AllHealthy(answers, i, j)) =>
           /\ j - i < n => answers[i].endpoint # answers[j].endpoint
           /\ j - i = n => answers[i].endpoint = answers[j].endpoint

\* Four calls in a row for a key of three healthy endpoints: three
\* different endpoints, then the first again.
W_C34 ==
  \E serviceKey \in DOMAIN gateway.served :
    LET answers == gateway.served[serviceKey]
    IN /\ Len(gateway.states[serviceKey].endpoints) = 3
       /\ Len(answers) = 4
       /\ AllHealthy(answers, 1, 4)
       /\ answers[4].endpoint = answers[1].endpoint
       /\ Cardinality({answers[k].endpoint : k \in 1..3}) = 3

(***************************************************************************)
(* C35.  A host daemon whose complete or claim request was rejected or     *)
(* failed goes on polling and is not blocked: once the host holds no lease *)
(* on the coordinator, its activeLeases there comes back below maxParallel *)
(* and the host claims an eligible queued job again, however the heartbeat *)
(* loop and the worker loop interleave.  On the finite run: in no state is *)
(* the daemon stuck, that is polling, holding no lease on the coordinator, *)
(* with a queued job it is capable of, and with no count below maxParallel *)
(* anywhere: not on the coordinator, not in the record the daemon keeps,   *)
(* not in the answer of a heartbeat on its way.                            *)
(***************************************************************************)
DaemonJobs == 1..MaxDaemonJobs

EligibleQueued(jobId) ==
  /\ hasJob(local, jobId)
  /\ jobOf(local, jobId).status = "queued"
  /\ hasCapabilities(local.hosts[LeaseHost].capabilities,
                     jobOf(local, jobId).requiredCapabilities)

DaemonStuck ==
  /\ daemon.phase = "polling"
  /\ hasHost(local, LeaseHost)
  /\ LeasedTo(local, LeaseHost) = {}
  /\ \E jobId \in DaemonJobs : EligibleQueued(jobId)
  /\ local.hosts[LeaseHost].activeLeases >= local.hosts[LeaseHost].maxParallel
  /\ daemon.activeLeases >= local.hosts[LeaseHost].maxParallel
  /\ daemon.beat # NoLeases => daemon.beat >= local.hosts[LeaseHost].maxParallel

C35_DaemonNotBlocked == ~DaemonStuck

\* No step of the daemon, the sweeper, the clock or the client leads out of
\* a state in which the daemon is stuck.
StuckForGood == [][DaemonStuck => DaemonStuck']_vars

(***************************************************************************)
(* C36.  The rollback of a failed quorum write undoes the effects of that  *)
(* write only: what other requests and merges put into the state of the    *)
(* coordinator while the write waited for its peers is still there after   *)
(* it.  In every step that rolls a write of node n back, each host, job or *)
(* service that node n adopted from a peer since the checkpoint of the     *)
(* write is in the state of node n after the step as it was before it.     *)
(***************************************************************************)
\* The last answer of a peer arrives and the acks are too few.
RollsBack(n) ==
  /\ write[n].phase = "replicating"
  /\ \E msg \in net \ net' :
       /\ msg.kind = "response" /\ msg.to = n
       /\ write[n].waiting = {msg.from}
       /\ countAcked(write[n].acked, msg.ok) < requiredPeerAcks

\* The records node n holds that its checkpoint does not and that another
\* node stamped: mutations of node n and its sweeper stamp updatedBy n, so
\* these came in by a mergeSnapshot after the checkpoint.
AdoptedSince(n) ==
  {r \in Records(coord[n]) \ Records(write[n].checkpoint) : r[3].updatedBy # n}

C36_RollbackUndoesOnlyItsWrite ==
  [][\A n \in Nodes :
       RollsBack(n) => \A r \in AdoptedSince(n) : r \in Records(coord'[n])]_vars

(***************************************************************************)
(* C37.  Two requests with the same route, the same x-idempotency-key and  *)
(* the same body that one coordinator handles side by side run the         *)
(* mutation at most once and get the same response body.  In every state,  *)
(* of any two requests of node-a that were both answered 200 and agree on  *)
(* route, key and body, at most one ran its mutation and the two response  *)
(* bodies are equal.                                                       *)
(***************************************************************************)
AnsweredOk(k) == overlap[k].phase = "answered" /\ overlap[k].statusCode = 200

SameAsk(j, k) ==
  /\ keyOf(overlap[j].req) = keyOf(overlap[k].req)
  /\ hashIdempotencyRequest(overlap[j].req) = hashIdempotencyRequest(overlap[k].req)

C37_SameKeyOneMutationOneAnswer ==
  \A j, k \in Slots :
    (j # k /\ AnsweredOk(j) /\ AnsweredOk(k) /\ SameAsk(j, k))
    => /\ ~(overlap[j].executed /\ overlap[k].executed)
       /\ overlap[j].body = overlap[k].body

(***************************************************************************)
(* C38.  A mutation whose request was answered "replication target not     *)
(* met" and rolled back does not come back into the state of that          *)
(* coordinator, neither by the peer sync nor by a later push of a peer.    *)
(* What node n has written carries updatedBy n, and what it has written    *)
(* and does not hold it has rolled back.  So: in every step after node n   *)
(* answered "replication target not met" and before its next request, no   *)
(* host, job or service that node n did not hold before the step and that  *)
(* carries updatedBy n is in its state after the step.                     *)
(***************************************************************************)
TargetNotMet(n) ==
  /\ write[n].phase = "idle"
  /\ "result" \in DOMAIN write[n]
  /\ write[n].result = "replication target not met"
  /\ write'[n] = write[n]

IdsOf(st) == {<<r[1], r[2]>> : r \in Records(st)}

C38_RolledBackStaysAway ==
  [][\A n \in Nodes :
       TargetNotMet(n) =>
         \A r \in Records(coord'[n]) :
           <<r[1], r[2]>> \notin IdsOf(coord[n]) => r[3].updatedBy # n]_vars

(***************************************************************************)
(* C39.  The terminal states of a job are absorbing: once a job is         *)
(* completed or failed on a coordinator, its status, its result and its    *)
(* assignedHostId do not change on that coordinator any more, whatever is  *)
(* applied there and whatever snapshot of another coordinator is merged.   *)
(* In every step that is not the rollback of a write, a job that is        *)
(* completed or failed on node n before the step is on node n after it     *)
(* with the same status, result and assignedHostId.                        *)
(***************************************************************************)
Terminal(job) == job.status \in {"completed", "failed"}

SameOutcome(before, after) ==
  /\ after.status = before.status
  /\ after.hasResult = before.hasResult
  /\ after.assignedHostId = before.assignedHostId

C39_TerminalIsAbsorbing ==
  [][\A n \in Nodes :
       ~RollsBack(n) =>
         \A i \in DOMAIN coord[n].jobs :
           Terminal(coord[n].jobs[i]) =>
             /\ hasJob(coord'[n], coord[n].jobs[i].id)
             /\ SameOutcome(coord[n].jobs[i], jobOf(coord'[n], coord[n].jobs[i].id))]_vars

(***************************************************************************)
(* C40.  Under deployService, claimService and reportService a service     *)
(* has at most one assignment for each host, and an assignment that was    *)
(* added is not removed; a failed one keeps its place among the replicas.  *)
(* In every step, no service of the coordinator has two assignments of one *)
(* host after the step, and every service of before the step is there      *)
(* after it with an assignment for each host it had one for.               *)
(***************************************************************************)
OnePerHost(service) ==
  \A j, k \in DOMAIN service.assignments :
    service.assignments[j].hostId = service.assignments[k].hostId => j = k

AssignmentsKept(before, after) ==
  \A k \in DOMAIN before.assignments :
    AssignedOn(after, before.assignments[k].hostId)

C40_AssignmentsOnePerHostAndKept ==
  [][/\ \A i \in DOMAIN coord'[LocalNode].services :
          OnePerHost(coord'[LocalNode].services[i])
     /\ \A i \in DOMAIN local.services :
          /\ hasService(coord'[LocalNode], local.services[i].id)
          /\ AssignmentsKept(local.services[i],
                             serviceOf(coord'[LocalNode], local.services[i].id))]_vars

====
